---- MODULE Spec2Model ----
(***************************************************************************)
(* Global GDP Explorer (src/app.js): the tabular parser, the subnational   *)
(* merge, the initialization life cycle, the map playback timer, the       *)
(* statistics, sorts and colour scale, the map paths, and the selection,   *)
(* year range and export handlers.                                         *)
(*                                                                         *)
(* A JavaScript string is a sequence of one-character strings.  A number   *)
(* is a decimal [t |-> "num", m, e] standing for m / 10^e, kept normalised *)
(* (e = 0 or m not divisible by 10), so equal numbers are equal records.   *)
(***************************************************************************)
EXTENDS Integers, Sequences, FiniteSets, TLC

VARIABLES
    line, parts,          \* parseCSVLine: the argument and the returned array
    csvDoc, data,         \* parseCSV: the table given and the returned store
    rawData,              \* state.rawData: the four series stores
    mergeDoc, mergeKey,   \* mergeStateData: the arguments of the last call
    merges,               \* the number of mergeStateData calls so far
    repeatedMerge,        \* history: the last call repeated the one before
    fetchStatus,          \* the nine fetches of init: pending, ok or failed
    initState,            \* init: loading (at its await), ready or failed
    alertShown,           \* the load-failure alert was shown
    loadingHidden,        \* hideLoading was called
    timerFired,           \* the 100 ms timer has run
    listeners,            \* the groups of event listeners registered
    gdpData, pppData, countries, geoData, selectedCountries, currentView,
    priceType, yearStart, yearEnd, mapYear, isPlaying, playInterval,
    intervals,            \* the browser's active interval timers
    nextIntervalId,       \* the id the next setInterval returns
    dataSortField, dataSortAsc, rankingsSortField, rankingsSortAsc,
    rankingsSearchQuery, globalRankingsData,
    rankingRows,          \* the rows of the rankings table body
    tableCodes,           \* the rows of the data table body
    earlyStages,          \* history: stages run while a fetch was pending
    tickedWhileStopped,   \* history: a tick ran while isPlaying was false
    endVal, startVal,     \* the two endpoint values of a growth computation
    yearSpan,             \* updateInsights: endYear - startYear
    growthPeriod, cagr,   \* updateInsights: the statistics of one region
    tableGrowth,          \* updateDataTable: growth of one row
    mapGrowth,            \* renderMap: growth of one region
    sortRows,             \* the entries of a table before it is sorted
    sortField, sortAsc,   \* the sort field and direction of that table
    tableSorted,          \* updateDataTable: the entries after the sort
    rankingSorted,        \* renderGlobalRankings: the entries after the sort
    colorVal,             \* renderMap: gdpVal of the region being filled
    colorOther,           \* renderMap: the value of the other region
    fill,                 \* renderMap: the bucket and the fill of the region
    geometry,             \* generatePathData: the geometry given
    pathData,             \* generatePathData: the path returned, or the error
    exported              \* exportToCSV: the rows of the last export, or the error

lineVars == <<line, parts>>
csvVars == <<csvDoc, data>>
mergeVars == <<rawData, mergeDoc, mergeKey, merges, repeatedMerge>>
appVars ==
    <<fetchStatus, initState, alertShown, loadingHidden, timerFired, listeners,
      gdpData, pppData, countries, geoData, selectedCountries, currentView,
      priceType, yearStart, yearEnd, mapYear, isPlaying, playInterval, intervals,
      nextIntervalId, dataSortField, dataSortAsc, rankingsSortField,
      rankingsSortAsc, rankingsSearchQuery, globalRankingsData, rankingRows,
      tableCodes, earlyStages, tickedWhileStopped>>
growthVars ==
    <<endVal, startVal, yearSpan, growthPeriod, cagr, tableGrowth, mapGrowth>>
sortingVars == <<sortRows, sortField, sortAsc, tableSorted, rankingSorted>>
colorVars == <<colorVal, colorOther, fill>>
pathVars == <<geometry, pathData>>
pureVars == <<growthVars, sortingVars, colorVars, pathVars, exported>>
vars ==
    <<line, parts, csvDoc, data, rawData, mergeDoc, mergeKey, merges,
      repeatedMerge, appVars, pureVars>>

----------------------------------------------------------------------------
(* Strings *)

WhiteSpace == {" ", "\t", "\r", "\n"}
Digits == <<"0", "1", "2", "3", "4", "5", "6", "7", "8", "9">>
IsDigit(c) == \E i \in 1..10 : Digits[i] = c
DigitVal(c) == (CHOOSE i \in 1..10 : Digits[i] = c) - 1

RECURSIVE trimStart(_)
trimStart(s) ==
    IF s # <<>> /\ Head(s) \in WhiteSpace THEN trimStart(Tail(s)) ELSE s

RECURSIVE trimEnd(_)
trimEnd(s) ==
    IF s # <<>> /\ s[Len(s)] \in WhiteSpace
    THEN trimEnd(SubSeq(s, 1, Len(s) - 1))
    ELSE s

trim(s) == trimEnd(trimStart(s))

RECURSIVE splitFrom(_, _, _, _, _)
splitFrom(s, sep, i, cur, acc) ==
    IF i > Len(s) THEN Append(acc, cur)
    ELSE IF s[i] = sep THEN splitFrom(s, sep, i + 1, <<>>, Append(acc, cur))
    ELSE splitFrom(s, sep, i + 1, Append(cur, s[i]), acc)

split(s, sep) == splitFrom(s, sep, 1, <<>>, <<>>)

(* p.replace(/^"|"$/g, '') *)
stripOuterQuotes(p) ==
    LET a == IF p # <<>> /\ Head(p) = "\"" THEN Tail(p) ELSE p
    IN  IF a # <<>> /\ a[Len(a)] = "\"" THEN SubSeq(a, 1, Len(a) - 1) ELSE a

----------------------------------------------------------------------------
(* parseCSVLine *)

RECURSIVE parseCSVLineNoQuoteLoop(_, _, _, _, _)
parseCSVLineNoQuoteLoop(l, i, ps, current, inQuote) ==
    IF i > Len(l) THEN Append(ps, trim(current))
    ELSE LET char == l[i] IN
         IF char = "\"" THEN parseCSVLineNoQuoteLoop(l, i + 1, ps, current, ~inQuote)
         ELSE IF char = ","
              THEN parseCSVLineNoQuoteLoop(l, i + 1, Append(ps, trim(current)), <<>>, inQuote)
              ELSE parseCSVLineNoQuoteLoop(l, i + 1, ps, Append(current, char), inQuote)

(* parseCSVLine with the "&& !inQuote" test dropped *)
parseCSVLineNoQuote(l) ==
    LET ps == parseCSVLineNoQuoteLoop(l, 1, <<>>, <<>>, FALSE)
    IN  [k \in 1..Len(ps) |-> trim(stripOuterQuotes(ps[k]))]

RECURSIVE parseCSVLineLoop(_, _, _, _, _)
parseCSVLineLoop(l, i, ps, current, inQuote) ==
    IF i > Len(l) THEN Append(ps, trim(current))
    ELSE LET char == l[i] IN
         IF char = "\"" THEN parseCSVLineLoop(l, i + 1, ps, current, ~inQuote)
         ELSE IF char = "," /\ ~inQuote
              THEN parseCSVLineLoop(l, i + 1, Append(ps, trim(current)), <<>>, inQuote)
              ELSE parseCSVLineLoop(l, i + 1, ps, Append(current, char), inQuote)

parseCSVLine(l) ==
    LET ps == parseCSVLineLoop(l, 1, <<>>, <<>>, FALSE)
    IN  [k \in 1..Len(ps) |-> trim(stripOuterQuotes(ps[k]))]

----------------------------------------------------------------------------
(* Numbers: parseFloat and the string-to-number coercion of isNaN.         *)
(* Characters other than digits, signs, the dot and white space end a      *)
(* numeric literal; the exponent, hexadecimal and Infinity literals are    *)
(* not modelled and no input below contains the letters that spell them.   *)

Num(m, e) == [t |-> "num", m |-> m, e |-> e]
NaN == [t |-> "NaN", m |-> 0, e |-> 0]
null == [t |-> "null", m |-> 0, e |-> 0]
undefined == [t |-> "undefined", m |-> 0, e |-> 0]

RECURSIVE NormNum(_, _)
NormNum(m, e) ==
    IF e > 0 /\ m % 10 = 0 THEN NormNum(m \div 10, e - 1) ELSE Num(m, e)

RECURSIVE countDigits(_, _)
countDigits(s, i) ==
    IF i <= Len(s) /\ IsDigit(s[i]) THEN 1 + countDigits(s, i + 1) ELSE 0

RECURSIVE digitsValue(_, _, _)
digitsValue(s, i, n) ==
    IF n = 0 THEN 0
    ELSE digitsValue(s, i, n - 1) * 10 + DigitVal(s[i + n - 1])

(* The longest prefix of s that is an unsigned decimal literal:            *)
(* [int |-> digits before the dot, frac |-> digits after it, len].         *)
decimalPrefix(s) ==
    LET n1 == countDigits(s, 1)
        dot == n1 + 1 <= Len(s) /\ s[n1 + 1] = "."
        n2 == IF dot THEN countDigits(s, n1 + 2) ELSE 0
    IN  IF n1 + n2 = 0 THEN [int |-> 0, frac |-> 0, len |-> 0]
        ELSE [int |-> n1, frac |-> n2, len |-> IF dot THEN n1 + 1 + n2 ELSE n1]

signOf(s) == IF s # <<>> /\ Head(s) = "-" THEN -1 ELSE 1
unsigned(s) == IF s # <<>> /\ Head(s) \in {"-", "+"} THEN Tail(s) ELSE s

decimalValue(s, p) ==
    LET digs == SubSeq(s, 1, p.int) \o
                (IF p.frac > 0 THEN SubSeq(s, p.int + 2, p.int + 1 + p.frac) ELSE <<>>)
    IN  NormNum(digitsValue(digs, 1, Len(digs)), p.frac)

(* parseFloat(s): leading white space skipped, then the longest numeric    *)
(* prefix; NaN when there is none.                                         *)
parseFloat(s) ==
    LET t == trimStart(s)
        u == unsigned(t)
        p == decimalPrefix(u)
        v == decimalValue(u, p)
    IN  IF p.len = 0 THEN NaN ELSE NormNum(signOf(t) * v.m, v.e)

(* isNaN(s) for a string s: Number(s) is NaN.  The empty or blank string   *)
(* converts to 0; otherwise the whole trimmed string must be a literal.    *)
isNaN(s) ==
    LET t == trim(s)
        u == unsigned(t)
        p == decimalPrefix(u)
    IN  IF t = <<>> THEN FALSE ELSE ~(p.len > 0 /\ p.len = Len(u))

----------------------------------------------------------------------------
(* Arithmetic on stored values.  A quotient is kept exact, as a fraction   *)
(* [t |-> "frac", n, d] in lowest terms with d > 0; the rounding of        *)
(* floating point is not modelled.  Math.pow(b, 1 / k) for k > 1 is NaN    *)
(* for b < 0 and is otherwise kept as the root it stands for.              *)

Abs(x) == IF x < 0 THEN -x ELSE x
RECURSIVE GCD(_, _)
GCD(a, b) == IF b = 0 THEN a ELSE GCD(b, a % b)
RECURSIVE Pow10(_)
Pow10(e) == IF e = 0 THEN 1 ELSE 10 * Pow10(e - 1)

Frac(n, d) ==
    LET g == GCD(Abs(n), Abs(d))
        sgn == IF d < 0 THEN -1 ELSE 1
    IN  [t |-> "frac", n |-> (sgn * n) \div g, d |-> (sgn * d) \div g]
toFrac(v) == Frac(v.m, Pow10(v.e))
sub(a, b) == Frac(a.n * b.d - b.n * a.d, a.d * b.d)
mul(a, b) == Frac(a.n * b.n, a.d * b.d)
div(a, b) == Frac(a.n * b.d, a.d * b.n)

(* ToBoolean of a stored value: undefined, null, NaN and 0 are falsy *)
truthy(v) == (v.t = "num" /\ v.m # 0) \/ (v.t = "frac" /\ v.n # 0)

(* (endVal && startVal) ? ((endVal - startVal) / startVal * 100) : null *)
growthValue(vEnd, vStart) ==
    IF truthy(vEnd) /\ truthy(vStart)
    THEN mul(div(sub(toFrac(vEnd), toFrac(vStart)), toFrac(vStart)), Frac(100, 1))
    ELSE null

(* Math.pow(base, 1 / k) for an integer k >= 1 *)
powRoot(base, k) ==
    IF k = 1 \/ base.n = 0 THEN base
    ELSE IF base.n < 0 THEN NaN
    ELSE [t |-> "root", n |-> base.n, d |-> base.d, k |-> k]

(* (x - 1) * 100 *)
minusOneTimes100(x) ==
    IF x.t = "NaN" THEN NaN
    ELSE IF x.t = "frac" THEN mul(sub(x, Frac(1, 1)), Frac(100, 1))
    ELSE [t |-> "rootpct", n |-> x.n, d |-> x.d, k |-> x.k]

(* (endVal && startVal && yearSpan > 0) ?                                  *)
(*     ((Math.pow(endVal / startVal, 1 / yearSpan) - 1) * 100) : null      *)
cagrValue(vEnd, vStart, span) ==
    IF truthy(vEnd) /\ truthy(vStart) /\ span > 0
    THEN minusOneTimes100(powRoot(div(toFrac(vEnd), toFrac(vStart)), span))
    ELSE null

(* (gVal && pVal) ? (gVal / pVal) : null *)
ratioValue(gVal, pVal) ==
    IF truthy(gVal) /\ truthy(pVal) THEN div(toFrac(gVal), toFrac(pVal)) ELSE null

(* The sign of x - y as a sort comparator sees it: 0 when x - y is NaN,    *)
(* as for two keys that are both -Infinity.                                *)
NegInfinity == [t |-> "-inf", n |-> -1, d |-> 0]
valueOf(v) == IF v.t = "num" THEN toFrac(v) ELSE v
signOfDifference(x, y) ==
    IF x.t = "NaN" \/ y.t = "NaN" \/ (x.t = "-inf" /\ y.t = "-inf") THEN 0
    ELSE IF x.t = "-inf" THEN -1
    ELSE IF y.t = "-inf" THEN 1
    ELSE IF x.n * y.d < y.n * x.d THEN -1
    ELSE IF x.n * y.d > y.n * x.d THEN 1
    ELSE 0

(* v || dflt *)
orElse(v, dflt) == IF truthy(v) THEN valueOf(v) ELSE dflt

(* Array.prototype.sort with the comparator (a, b) => aVal - bVal, or     *)
(* bVal - aVal when descending, on entries [key |-> aVal, item |-> a].     *)
(* The sort is stable: an entry goes before the first one it is to        *)
(* precede, so entries that compare equal keep their order.                *)
RECURSIVE insertByKey(_, _, _)
insertByKey(sorted, x, asc) ==
    IF sorted = <<>> THEN <<x>>
    ELSE LET c == IF asc THEN signOfDifference(x.key, Head(sorted).key)
                  ELSE signOfDifference(Head(sorted).key, x.key)
         IN  IF c < 0 THEN <<x>> \o sorted
             ELSE <<Head(sorted)>> \o insertByKey(Tail(sorted), x, asc)
RECURSIVE sortFrom(_, _, _)
sortFrom(keyed, acc, asc) ==
    IF keyed = <<>> THEN acc
    ELSE sortFrom(Tail(keyed), insertByKey(acc, Head(keyed), asc), asc)
stableSort(keyed, asc) ==
    LET sorted == sortFrom(keyed, <<>>, asc)
    IN  [i \in 1..Len(sorted) |-> sorted[i].item]

(* Array.prototype.indexOf, 1-based *)
indexOf(seq, x) == CHOOSE i \in 1..Len(seq) : seq[i] = x /\ \A j \in 1..(i - 1) : seq[j] # x

----------------------------------------------------------------------------
(* Objects (series stores, value maps): functions from string keys.        *)

EmptyObject == [k \in {} |-> undefined]
setKey(obj, k, v) == [x \in DOMAIN obj \cup {k} |-> IF x = k THEN v ELSE obj[x]]
hasKey(obj, k) == k \in DOMAIN obj

RawKeys == {"gdpCurrent", "gdpConstant", "pppCurrent", "pppConstant"}
EmptyRawData == [k \in RawKeys |-> EmptyObject]

----------------------------------------------------------------------------
(* parseCSV *)

Y1960 == <<"1", "9", "6", "0">>

(* findStartYearIdx falling back to the fifth column when 1960 is absent *)
findStartYearIdxDefault(headers) ==
    IF \E j \in 1..Len(headers) : trim(headers[j]) = Y1960
    THEN CHOOSE j \in 1..Len(headers) :
            /\ trim(headers[j]) = Y1960
            /\ \A k \in 1..(j - 1) : trim(headers[k]) # Y1960
    ELSE 5

(* headers.findIndex(h => h.trim() === '1960'), 1-based; 0 for JS's -1 *)
findStartYearIdx(headers) ==
    IF \E j \in 1..Len(headers) : trim(headers[j]) = Y1960
    THEN CHOOSE j \in 1..Len(headers) :
            /\ trim(headers[j]) = Y1960
            /\ \A k \in 1..(j - 1) : trim(headers[k]) # Y1960
    ELSE 0

(* for (let j = startYearIdx; j < parts.length; j++) { ... } *)
RECURSIVE rowValues(_, _, _, _)
rowValues(headers, ps, j, values) ==
    IF j > Len(ps) THEN values
    ELSE IF j > Len(headers) \/ headers[j] = <<>> \/ isNaN(trim(headers[j]))
         THEN rowValues(headers, ps, j + 1, values)
         ELSE LET val == parseFloat(ps[j])
              IN  rowValues(headers, ps, j + 1,
                            setKey(values, trim(headers[j]),
                                   IF val = NaN THEN null ELSE val))

MinTokens == 5

(* parseRows keeping every row that has a name and a code *)
RECURSIVE parseRowsShort(_, _, _, _, _)
parseRowsShort(lines, headers, startYearIdx, i, store) ==
    IF i > Len(lines) THEN store
    ELSE LET ps == parseCSVLine(lines[i]) IN
         IF trim(lines[i]) = <<>> \/ Len(ps) < 2
         THEN parseRowsShort(lines, headers, startYearIdx, i + 1, store)
         ELSE parseRowsShort(lines, headers, startYearIdx, i + 1,
                             setKey(store, ps[2],
                                    [name |-> ps[1],
                                     values |-> rowValues(headers, ps, startYearIdx,
                                                          EmptyObject)]))

(* for (let i = 5; i < lines.length; i++) { ... }; lines is 1-based here *)
RECURSIVE parseRows(_, _, _, _, _)
parseRows(lines, headers, startYearIdx, i, store) ==
    IF i > Len(lines) THEN store
    ELSE LET ps == parseCSVLine(lines[i]) IN
         IF trim(lines[i]) = <<>> \/ Len(ps) < MinTokens
         THEN parseRows(lines, headers, startYearIdx, i + 1, store)
         ELSE parseRows(lines, headers, startYearIdx, i + 1,
                        setKey(store, ps[2],
                               [name |-> ps[1],
                                values |-> rowValues(headers, ps, startYearIdx,
                                                     EmptyObject)]))

HeaderLineNo == 5

parseCSV(csvText) ==
    LET lines == split(trim(csvText), "\n") IN
    IF Len(lines) < HeaderLineNo \/ lines[HeaderLineNo] = <<>> THEN EmptyObject
    ELSE LET headers == parseCSVLine(lines[HeaderLineNo])
             startYearIdx == findStartYearIdx(headers)
         IN  IF startYearIdx = 0 THEN EmptyObject
             ELSE parseRows(lines, headers, startYearIdx, HeaderLineNo + 1,
                            EmptyObject)

----------------------------------------------------------------------------
(* mergeStateData *)

LowerCase == <<"a", "b", "c", "d", "e", "f", "g", "h", "i", "j", "k", "l", "m",
               "n", "o", "p", "q", "r", "s", "t", "u", "v", "w", "x", "y", "z">>
UpperCase == <<"A", "B", "C", "D", "E", "F", "G", "H", "I", "J", "K", "L", "M",
               "N", "O", "P", "Q", "R", "S", "T", "U", "V", "W", "X", "Y", "Z">>
toUpperCaseChar(c) ==
    IF \E i \in 1..26 : LowerCase[i] = c
    THEN UpperCase[CHOOSE i \in 1..26 : LowerCase[i] = c]
    ELSE c
toUpperCase(s) == [i \in 1..Len(s) |-> toUpperCaseChar(s[i])]

(* s.replace(/\s+/g, '_'): every run of white space becomes one underscore *)
RECURSIVE replaceWhiteSpace(_)
replaceWhiteSpace(s) ==
    IF s = <<>> THEN <<>>
    ELSE IF Head(s) \in WhiteSpace
         THEN <<"_">> \o replaceWhiteSpace(trimStart(s))
         ELSE <<Head(s)>> \o replaceWhiteSpace(Tail(s))

StatePrefix == <<"U", "S", "A", "_", "S", "T", "_">>

(* stateCode with the 'USA_ST_' prefix left out *)
stateCodeNoPrefix(name) == toUpperCase(replaceWhiteSpace(name))

(* 'USA_ST_' + name.replace(/\s+/g, '_').toUpperCase() *)
stateCode(name) == StatePrefix \o toUpperCase(replaceWhiteSpace(name))

(* for (let y = 0; y < years.length; y++) { ... }; y is 1-based here *)
RECURSIVE stateValues(_, _, _, _)
stateValues(years, ps, y, values) ==
    IF y > Len(years) THEN values
    ELSE IF y + 1 <= Len(ps) /\ ps[y + 1] # <<>>
         THEN stateValues(years, ps, y + 1,
                          setKey(values, years[y], parseFloat(ps[y + 1])))
         ELSE stateValues(years, ps, y + 1, values)

(* for (let i = 1; i < lines.length; i++) { ... }; lines is 1-based here *)
RECURSIVE mergeRows(_, _, _, _)
mergeRows(lines, years, i, target) ==
    IF i > Len(lines) THEN target
    ELSE LET ps == parseCSVLine(lines[i]) IN
         IF trim(lines[i]) = <<>> \/ Len(ps) < 2
         THEN mergeRows(lines, years, i + 1, target)
         ELSE mergeRows(lines, years, i + 1,
                        setKey(target, stateCode(ps[1]),
                               [name |-> ps[1],
                                values |-> stateValues(years, ps, 1, EmptyObject)]))

(* mergeStateData keeping the entry a code already has and storing the     *)
(* row under the code followed by an underscore                            *)
mergeStateDataKeep(csvText, target) ==
    LET lines == split(trim(csvText), "\n")
        cells == split(lines[1], ",")
        header == [k \in 1..Len(cells) |-> trim(cells[k])]
        years == Tail(header)
        new == mergeRows(lines, years, 2, EmptyObject)
        fresh == {c \in DOMAIN new : ~hasKey(target, c)}
        kept == {c \o <<"_">> : c \in DOMAIN new \ fresh}
    IN  [c \in DOMAIN target \cup fresh \cup kept |->
            IF c \in fresh THEN new[c]
            ELSE IF c \in kept /\ ~hasKey(target, c)
                 THEN new[SubSeq(c, 1, Len(c) - 1)]
                 ELSE target[c]]

(* mergeStateData(csvText, targetKey), as the new value of                 *)
(* state.rawData[targetKey] given its old value target.                    *)
mergeStateData(csvText, target) ==
    LET lines == split(trim(csvText), "\n")
        cells == split(lines[1], ",")
        header == [k \in 1..Len(cells) |-> trim(cells[k])]
        years == Tail(header)
    IN  mergeRows(lines, years, 2, target)

----------------------------------------------------------------------------
(* Inputs.  A table is a sequence of lines, a line a sequence of cells as  *)
(* written in the file; csvText is the file's text.  Lines for the         *)
(* tokenizer are all strings over LineAlphabet of at most MaxLineLen        *)
(* characters; country and subnational tables are drawn from the pools.     *)

MaxLineLen == 5
LineAlphabet == {"a", ",", "\"", " "}
NotParsed == <<<<"?">>>>

RECURSIVE LinesUpTo(_)
LinesUpTo(n) ==
    IF n = 0 THEN {<<>>}
    ELSE LET shorter == LinesUpTo(n - 1)
         IN  shorter \cup {Append(s, c) : s \in {t \in shorter : Len(t) = n - 1},
                                          c \in LineAlphabet}

RECURSIVE join(_, _)
join(ss, sep) ==
    IF ss = <<>> THEN <<>>
    ELSE IF Len(ss) = 1 THEN ss[1]
    ELSE ss[1] \o <<sep>> \o join(Tail(ss), sep)

csvText(doc) == join([i \in 1..Len(doc) |-> join(doc[i], ",")], "\n")

MaxRows == 2

Y1961 == <<"1", "9", "6", "1">>
BlankLine == << <<>> >>
MetaLines ==
    << << <<"D">>, <<"W">> >>, BlankLine, << <<"L">>, <<"2">> >>, BlankLine >>
KeyCells == << <<"n">>, <<"c">>, <<"i">>, <<"k">> >>
HeaderPool ==
    { KeyCells \o <<Y1960, Y1961>>,
      KeyCells \o <<Y1960, <<"1", ".", "5">> >>,
      KeyCells \o <<Y1960, <<"y", "r">> >>,
      KeyCells \o <<Y1960, <<>> >>,
      KeyCells \o <<Y1960>>,
      KeyCells \o <<Y1961>>,
      << <<"n">>, <<"c">>, <<"\"", "1", "9", "6", "0", "\"">>, Y1961, Y1961 >>,
      BlankLine }

CodeA == <<"A", "A", "A">>
CodeB == <<"B", "B", "B">>
FullRow(name, code, v1, v2) == <<name, code, <<"i">>, <<"k">>, v1, v2>>
ValueCells ==
    { <<"7">>, <<"0">>, <<>>, <<"a", "b">>, <<"7", "a">>, <<"1", ".", "5">>,
      <<"-", "2">>, <<" ">> }
RowPool ==
    { FullRow(<<"A", "a">>, CodeA, v, <<"7">>) : v \in ValueCells }
    \cup { FullRow(<<"B", "b">>, CodeB, <<"3">>, v) : v \in {<<>>, <<"0">>} }
    \cup { << <<"\"", "B", ",", "b", "\"">>, CodeB, <<"i">>, <<"k">>, <<"4">> >>,
           << <<"A", "x">>, CodeA, <<"i">>, <<"9">> >>,
           << <<"B", "x">> >>,
           BlankLine }

RECURSIVE SeqsUpTo(_, _)
SeqsUpTo(S, n) ==
    IF n = 0 THEN {<<>>}
    ELSE LET shorter == SeqsUpTo(S, n - 1)
         IN  shorter \cup {Append(q, x) : q \in {t \in shorter : Len(t) = n - 1},
                                          x \in S}

CsvDocs ==
    { SubSeq(MetaLines, 1, k) \o <<h>> \o rows :
        k \in {3, 4}, h \in HeaderPool, rows \in SeqsUpTo(RowPool, MaxRows) }

NoStore == setKey(EmptyObject, <<"?">>, [name |-> <<"?">>, values |-> EmptyObject])

MaxMerges == 2

CountryHeader == KeyCells \o <<Y1960, Y1961>>
GdpDoc ==
    MetaLines \o
    << CountryHeader,
       FullRow(<<"A", "a">>, CodeA, <<"7">>, <<"0">>),
       FullRow(<<"B", "b">>, CodeB, <<>>, <<"3">>) >>
PppDoc ==
    MetaLines \o
    << CountryHeader,
       FullRow(<<"A", "a">>, CodeA, <<"4">>, <<"2">>) >>
GdpConstDoc ==
    MetaLines \o
    << CountryHeader,
       FullRow(<<"A", "a">>, CodeA, <<"3">>, <<"9">>),
       FullRow(<<"B", "b">>, CodeB, <<"8">>, <<"3">>) >>
PppConstDoc ==
    MetaLines \o
    << CountryHeader,
       FullRow(<<"A", "a">>, CodeA, <<"5">>, <<"2">>) >>
CountryDoc(key) ==
    CASE key = "gdpCurrent" -> GdpDoc
      [] key = "gdpConstant" -> GdpConstDoc
      [] key = "pppCurrent" -> PppDoc
      [] key = "pppConstant" -> PppConstDoc

StateHeader == << <<"S">>, Y1960, Y1961 >>
NameAAA == <<"a", "a", "a">>
NameLower == <<"a", " ", "b">>
NameUpper == <<"A", " ", "B">>
NameWide == <<"a", " ", " ", "b">>
NameQuoted == <<"\"", "a", ",", " ", "b", "\"">>
StateDocs ==
    { << StateHeader, <<NameAAA, <<"5">>, <<"6">> >>, <<NameLower, <<"5">>, <<"6">> >> >>,
      << StateHeader, <<NameUpper, <<"8">>, <<"6">> >> >>,
      << StateHeader, <<NameWide, <<"x", "y">>, <<"6">> >> >>,
      << StateHeader, <<NameAAA, <<>>, <<"6">> >>, << <<"c">> >>, BlankLine,
         <<NameLower, <<"1">> >> >>,
      << StateHeader, <<NameQuoted, <<"5">> >> >>,
      << StateHeader, <<NameAAA, <<"5">>, <<"6">> >>, <<NameAAA, <<"0">>, <<"6">> >> >>,
      << StateHeader >>,
      << StateHeader, <<NameLower, <<"5">>, <<"6">>, <<"9">> >> >>,
      << StateHeader, <<NameLower, <<"5">>, <<"6">> >>, <<NameUpper, <<"8">>, <<"6">> >> >> }

ParsedRawData == [k \in RawKeys |-> parseCSV(csvText(CountryDoc(k)))]

----------------------------------------------------------------------------
(* The application: state (src/app.js:703-723, 2022-2025, 2163-2164), init, *)
(* the 100 ms timer of the second DOMContentLoaded handler and the event    *)
(* handlers.  Rendered tables are kept as the set of regions they show.     *)

NumFetches == 9
Fetches == 1..NumFetches
MinYear == 1960
MaxYear == 2024
MaxIntervalId == 2

Views == {"gdp", "ppp", "compare", "ratio", "map"}
PriceTypes == {"current", "constant"}
DataSortFields == {"name", "gdp"}
RankingSortFields == {"rank", "gdp"}
SearchQueries == {<<>>, <<"B">>}
MapYearInputs == {1960, 2023, 2024}
NoSetting == 0
SavedYears == {NoSetting, 2000, 2024}

(* What each fetch of init returns when it succeeds. *)
StateFixture ==
    << StateHeader, <<NameAAA, <<"5">>, <<"6">> >>, <<NameLower, <<"5">>, <<"6">> >> >>
GeoFixture == {CodeA, <<"Z", "Z", "Z">>}

(* String(year) for a four-digit year, the property key of values[year] *)
yearKey(y) ==
    << Digits[((y \div 1000) % 10) + 1], Digits[((y \div 100) % 10) + 1],
       Digits[((y \div 10) % 10) + 1], Digits[(y % 10) + 1] >>

toLowerCaseChar(c) ==
    IF \E i \in 1..26 : UpperCase[i] = c
    THEN LowerCase[CHOOSE i \in 1..26 : UpperCase[i] = c]
    ELSE c
toLowerCase(s) == [i \in 1..Len(s) |-> toLowerCaseChar(s[i])]
includes(s, q) ==
    \E i \in 1..(Len(s) - Len(q) + 1) : SubSeq(s, i, i + Len(q) - 1) = q

getValue(store, code, year) ==
    IF hasKey(store, code) /\ hasKey(store[code].values, year)
    THEN store[code].values[year]
    ELSE undefined

(* updateActiveData choosing the current-price store whatever the type *)
activeGdpCurrent(type, raw) == raw.gdpCurrent

(* updateActiveData *)
activeGdp(type, raw) == IF type = "current" THEN raw.gdpCurrent ELSE raw.gdpConstant
activePpp(type, raw) == IF type = "current" THEN raw.pppCurrent ELSE raw.pppConstant

(* init, steps 2 and 3: the four parses and the four merges *)
loadRawData ==
    [k \in RawKeys |->
        mergeStateData(csvText(StateFixture), parseCSV(csvText(CountryDoc(k))))]

(* init, step 4: the country list, as a set *)
countryList(raw) ==
    {[code |-> c, name |-> raw.gdpCurrent[c].name] : c \in DOMAIN raw.gdpCurrent}

(* loadSettings: the saved range when valid, else the default *)
loadSettings(savedStart, savedEnd, start, end) ==
    LET s == IF savedStart \in MinYear..MaxYear THEN savedStart ELSE start
        e == IF savedEnd \in MinYear..MaxYear THEN savedEnd ELSE end
    IN  IF s >= e THEN [yearStart |-> 1990, yearEnd |-> 2024]
        ELSE [yearStart |-> s, yearEnd |-> e]

(* Object.keys of a store filled by init: the country rows in the order   *)
(* of their table, then the regions in the order of theirs                *)
KeyOrder ==
    << CodeA, CodeB, StatePrefix \o <<"A", "A", "A">>, StatePrefix \o <<"A", "_", "B">> >>
objectKeys(store) == SelectSeq(KeyOrder, LAMBDA c : hasKey(store, c))

(* renderMap: countryStats, the regions with a GDP value for the map year, *)
(* sorted by (a, b) => b.gdp - a.gdp                                       *)
countryStats(gdp, ppp, year) ==
    LET statOf(c) ==
            LET gdpVal == getValue(gdp, c, yearKey(year))
                pppVal == getValue(ppp, c, yearKey(year))
                gdpPrev == getValue(gdp, c, yearKey(year - 5))
            IN  [code |-> c, name |-> gdp[c].name, gdp |-> gdpVal, ppp |-> pppVal,
                 growth |-> growthValue(gdpVal, gdpPrev),
                 ratio |-> ratioValue(gdpVal, pppVal)]
        listed == SelectSeq(objectKeys(gdp), LAMBDA c :
                      getValue(gdp, c, yearKey(year)).t \notin {"null", "undefined"})
    IN  stableSort([i \in 1..Len(listed) |->
                       LET st == statOf(listed[i])
                       IN  [key |-> valueOf(st.gdp), item |-> st]],
                   FALSE)

(* updateDataTable: the sort key of an entry *)
tableSortKey(c, field) ==
    CASE field = "ppp" -> orElse(c.ppp, Frac(0, 1))
      [] field = "ratio" -> orElse(c.ratio, Frac(0, 1))
      [] field = "growth" -> orElse(c.growth, NegInfinity)
      [] OTHER -> orElse(c.gdp, Frac(0, 1))

(* renderGlobalRankings: the sort key of an entry *)
rankingSortKey(c, field, rankings) ==
    CASE field = "rank" -> Frac(indexOf(rankings, c) - 1, 1)
      [] field = "ppp" -> orElse(c.ppp, Frac(0, 1))
      [] field = "growth" -> orElse(c.growth, NegInfinity)
      [] OTHER -> orElse(c.gdp, Frac(0, 1))

(* rankingRowsOf showing, as the rank of a row, its place in the table     *)
rankingRowsByPlace(rankings, query, field, asc) ==
    LET filtered ==
            IF query = <<>> THEN rankings
            ELSE SelectSeq(rankings, LAMBDA c :
                     \/ includes(toLowerCase(c.name), toLowerCase(query))
                     \/ includes(toLowerCase(c.code), toLowerCase(query)))
        sorted == stableSort([i \in 1..Len(filtered) |->
                                 [key |-> rankingSortKey(filtered[i], field, rankings),
                                  item |-> filtered[i]]],
                             asc)
    IN  [i \in 1..Len(sorted) |-> [code |-> sorted[i].code, rank |-> i]]

(* renderGlobalRankings: the rows of the table body, each with the rank    *)
(* it shows, after the search filter and the sort                          *)
rankingRowsOf(rankings, query, field, asc) ==
    LET filtered ==
            IF query = <<>> THEN rankings
            ELSE SelectSeq(rankings, LAMBDA c :
                     \/ includes(toLowerCase(c.name), toLowerCase(query))
                     \/ includes(toLowerCase(c.code), toLowerCase(query)))
        sorted == stableSort([i \in 1..Len(filtered) |->
                                 [key |-> rankingSortKey(filtered[i], field, rankings),
                                  item |-> filtered[i]]],
                             asc)
    IN  [i \in 1..Len(sorted) |->
            [code |-> sorted[i].code, rank |-> indexOf(rankings, sorted[i])]]

(* updateDataTable: the regions that get a row *)
tableCodesOf(gdp, ppp, list, selected) ==
    LET codesToShow == IF selected = <<>> THEN {c.code : c \in list}
                       ELSE {selected[i] : i \in 1..Len(selected)}
    IN  {c \in codesToShow : hasKey(gdp, c) \/ hasKey(ppp, c)}

(* No computation on single values has run. *)
NotRun == [t |-> "notrun", m |-> 0, e |-> 0]
GrowthIdle ==
    /\ endVal = undefined
    /\ startVal = undefined
    /\ yearSpan = 0
    /\ growthPeriod = NotRun
    /\ cagr = NotRun
    /\ tableGrowth = NotRun
    /\ mapGrowth = NotRun
NotSorted == << [code |-> "?"] >>
SortIdle ==
    /\ sortRows = <<>>
    /\ sortField = "gdp"
    /\ sortAsc = FALSE
    /\ tableSorted = NotSorted
    /\ rankingSorted = NotSorted
NotFilled == [idx |-> NotRun, color |-> "?"]
ColorIdle ==
    /\ colorVal = null
    /\ colorOther = null
    /\ fill = NotFilled
NoPath == [t |-> "notrun", s |-> <<>>]
PathIdle ==
    /\ geometry = null
    /\ pathData = NoPath
NotExported == [t |-> "notrun", rows |-> <<>>]
ExportIdle == exported = NotExported
PureIdle == GrowthIdle /\ SortIdle /\ ColorIdle /\ PathIdle /\ ExportIdle

FetchPending == \E f \in Fetches : fetchStatus[f] = "pending"
ranEarly(stages) == IF FetchPending THEN earlyStages \cup stages ELSE earlyStages

AppInit ==
    /\ fetchStatus = [f \in Fetches |-> "pending"]
    /\ initState = "loading"
    /\ alertShown = FALSE
    /\ loadingHidden = FALSE
    /\ timerFired = FALSE
    /\ listeners = {}
    /\ gdpData = EmptyObject
    /\ pppData = EmptyObject
    /\ countries = {}
    /\ geoData = {}
    /\ selectedCountries = <<>>
    /\ currentView = "gdp"
    /\ priceType = "current"
    /\ yearStart = 1990
    /\ yearEnd = 2024
    /\ mapYear = 2023
    /\ isPlaying = FALSE
    /\ playInterval = 0
    /\ intervals = {}
    /\ nextIntervalId = 1
    /\ dataSortField = "gdp"
    /\ dataSortAsc = FALSE
    /\ rankingsSortField = "rank"
    /\ rankingsSortAsc = TRUE
    /\ rankingsSearchQuery = <<>>
    /\ globalRankingsData = <<>>
    /\ rankingRows = <<>>
    /\ tableCodes = {}
    /\ earlyStages = {}
    /\ tickedWhileStopped = FALSE

Init ==
    /\ AppInit
    /\ rawData = EmptyRawData
    /\ mergeDoc = <<>>
    /\ mergeKey = "none"
    /\ merges = 0
    /\ repeatedMerge = FALSE
    /\ PureIdle
    /\ line = <<>>
    /\ parts = NotParsed
    /\ csvDoc = <<>>
    /\ data = EmptyObject

otherVars ==
    <<lineVars, csvVars, mergeDoc, mergeKey, merges, repeatedMerge, pureVars>>
fetchVars == <<fetchStatus, initState, alertShown, loadingHidden>>
dataVars == <<rawData, gdpData, pppData, countries, geoData>>
viewVars == <<selectedCountries, currentView, priceType, yearStart, yearEnd>>
playVars == <<isPlaying, playInterval, intervals, nextIntervalId, tickedWhileStopped>>
sortVars == <<dataSortField, dataSortAsc, rankingsSortField, rankingsSortAsc,
              rankingsSearchQuery>>
renderVars == <<globalRankingsData, rankingRows, tableCodes>>

(* One fetch of Promise.all fulfils while another is pending, or after     *)
(* init was abandoned.                                                     *)
FetchResolve(f) ==
    /\ fetchStatus[f] = "pending"
    /\ \E g \in Fetches \ {f} : fetchStatus[g] # "ok"
    /\ fetchStatus' = [fetchStatus EXCEPT ![f] = "ok"]
    /\ UNCHANGED <<initState, alertShown, loadingHidden, timerFired, listeners,
                   dataVars, viewVars, mapYear, playVars, sortVars, renderVars,
                   earlyStages, otherVars>>

(* One fetch rejects: Promise.all rejects at the first rejection, init     *)
(* throws at its await and the DOMContentLoaded handler alerts.            *)
FetchReject(f) ==
    /\ fetchStatus[f] = "pending"
    /\ fetchStatus' = [fetchStatus EXCEPT ![f] = "failed"]
    /\ initState' = IF initState = "loading" THEN "failed" ELSE initState
    /\ alertShown' = TRUE
    /\ UNCHANGED <<loadingHidden, timerFired, listeners, dataVars, viewVars,
                   mapYear, playVars, sortVars, renderVars, earlyStages,
                   otherVars>>

(* The last fetch fulfils and init runs to its end: parse, merge, country  *)
(* list, listeners, saved settings, setPriceType('current').               *)
InitCompletes(f, savedStart, savedEnd) ==
    /\ fetchStatus[f] = "pending"
    /\ \A g \in Fetches \ {f} : fetchStatus[g] = "ok"
    /\ initState = "loading"
    /\ fetchStatus' = [fetchStatus EXCEPT ![f] = "ok"]
    /\ initState' = "ready"
    /\ rawData' = loadRawData
    /\ geoData' = GeoFixture
    /\ countries' = countryList(rawData')
    /\ listeners' = listeners \cup {"ui"}
    /\ LET saved == loadSettings(savedStart, savedEnd, yearStart, yearEnd)
       IN  /\ yearStart' = saved.yearStart
           /\ yearEnd' = saved.yearEnd
    /\ loadingHidden' = TRUE
    /\ priceType' = "current"
    /\ gdpData' = activeGdp("current", rawData')
    /\ pppData' = activePpp("current", rawData')
    /\ IF currentView = "map"
       THEN /\ globalRankingsData' = countryStats(gdpData', pppData', mapYear)
            /\ rankingRows' = rankingRowsOf(globalRankingsData', rankingsSearchQuery,
                                            rankingsSortField, rankingsSortAsc)
       ELSE UNCHANGED <<globalRankingsData, rankingRows>>
    /\ tableCodes' = tableCodesOf(gdpData', pppData', countries', selectedCountries)
    /\ UNCHANGED <<alertShown, timerFired, selectedCountries, currentView, mapYear,
                   playVars, sortVars, earlyStages, otherVars>>

(* setTimeout(..., 100): setupGlobalRankingsListeners, setupDataTableSorting *)
ListenerTimer ==
    /\ ~timerFired
    /\ timerFired' = TRUE
    /\ listeners' = listeners \cup {"rankings", "dataSort"}
    /\ UNCHANGED <<fetchVars, dataVars, viewVars, mapYear, playVars, sortVars,
                   renderVars, earlyStages, otherVars>>

(* click on a sortable header of the data table *)
DataSortClick(field) ==
    /\ "dataSort" \in listeners
    /\ IF dataSortField = field
       THEN /\ dataSortAsc' = ~dataSortAsc
            /\ UNCHANGED dataSortField
       ELSE /\ dataSortField' = field
            /\ dataSortAsc' = (field = "name")
    /\ tableCodes' = tableCodesOf(gdpData, pppData, countries, selectedCountries)
    /\ earlyStages' = ranEarly({"updateDataTable"})
    /\ UNCHANGED <<fetchVars, timerFired, listeners, dataVars, viewVars, mapYear,
                   playVars, rankingsSortField, rankingsSortAsc,
                   rankingsSearchQuery, globalRankingsData, rankingRows,
                   otherVars>>

(* input in the rankings search box *)
RankingSearchInput(query) ==
    /\ "rankings" \in listeners
    /\ rankingsSearchQuery' = query
    /\ rankingRows' = rankingRowsOf(globalRankingsData, query,
                                    rankingsSortField, rankingsSortAsc)
    /\ earlyStages' = ranEarly({"renderGlobalRankings"})
    /\ UNCHANGED <<fetchVars, timerFired, listeners, dataVars, viewVars, mapYear,
                   playVars, dataSortField, dataSortAsc, rankingsSortField,
                   rankingsSortAsc, globalRankingsData, tableCodes, otherVars>>

(* change of the rankings metric selector *)
RankingMetricChange(field) ==
    /\ "rankings" \in listeners
    /\ rankingsSortField' = field
    /\ rankingsSortAsc' = FALSE
    /\ rankingRows' = rankingRowsOf(globalRankingsData, rankingsSearchQuery,
                                    rankingsSortField', rankingsSortAsc')
    /\ earlyStages' = ranEarly({"renderGlobalRankings"})
    /\ UNCHANGED <<fetchVars, timerFired, listeners, dataVars, viewVars, mapYear,
                   playVars, dataSortField, dataSortAsc, rankingsSearchQuery,
                   globalRankingsData, tableCodes, otherVars>>

(* click on a sortable header of the rankings table *)
RankingSortClick(field) ==
    /\ "rankings" \in listeners
    /\ IF rankingsSortField = field
       THEN /\ rankingsSortAsc' = ~rankingsSortAsc
            /\ UNCHANGED rankingsSortField
       ELSE /\ rankingsSortField' = field
            /\ rankingsSortAsc' = (field \in {"name", "rank"})
    /\ rankingRows' = rankingRowsOf(globalRankingsData, rankingsSearchQuery,
                                    rankingsSortField', rankingsSortAsc')
    /\ earlyStages' = ranEarly({"renderGlobalRankings"})
    /\ UNCHANGED <<fetchVars, timerFired, listeners, dataVars, viewVars, mapYear,
                   playVars, dataSortField, dataSortAsc, rankingsSearchQuery,
                   globalRankingsData, tableCodes, otherVars>>

(* togglePlay without the clearInterval call *)
TogglePlayNoClear ==
    /\ "ui" \in listeners
    /\ IF isPlaying
       THEN /\ isPlaying' = FALSE
            /\ UNCHANGED <<intervals, playInterval, nextIntervalId>>
       ELSE /\ nextIntervalId <= MaxIntervalId
            /\ isPlaying' = TRUE
            /\ playInterval' = nextIntervalId
            /\ intervals' = intervals \cup {nextIntervalId}
            /\ nextIntervalId' = nextIntervalId + 1
    /\ UNCHANGED <<fetchVars, timerFired, listeners, dataVars, viewVars, mapYear,
                   tickedWhileStopped, sortVars, renderVars, earlyStages,
                   otherVars>>

(* togglePlay: click on the play button *)
TogglePlay ==
    /\ "ui" \in listeners
    /\ IF isPlaying
       THEN /\ intervals' = intervals \ {playInterval}
            /\ isPlaying' = FALSE
            /\ UNCHANGED <<playInterval, nextIntervalId>>
       ELSE /\ nextIntervalId <= MaxIntervalId
            /\ isPlaying' = TRUE
            /\ playInterval' = nextIntervalId
            /\ intervals' = intervals \cup {nextIntervalId}
            /\ nextIntervalId' = nextIntervalId + 1
    /\ UNCHANGED <<fetchVars, timerFired, listeners, dataVars, viewVars, mapYear,
                   tickedWhileStopped, sortVars, renderVars, earlyStages,
                   otherVars>>

(* the setInterval callback without the wrap to 1960 *)
PlayTickNoWrap(id) ==
    /\ id \in intervals
    /\ mapYear' = mapYear + 1
    /\ globalRankingsData' = countryStats(gdpData, pppData, mapYear')
    /\ rankingRows' = rankingRowsOf(globalRankingsData', rankingsSearchQuery,
                                    rankingsSortField, rankingsSortAsc)
    /\ tickedWhileStopped' = (tickedWhileStopped \/ ~isPlaying)
    /\ UNCHANGED <<fetchVars, timerFired, listeners, dataVars, viewVars, isPlaying,
                   playInterval, intervals, nextIntervalId, sortVars, tableCodes,
                   earlyStages, otherVars>>

(* the setInterval callback of togglePlay, for an interval still active *)
PlayTick(id) ==
    /\ id \in intervals
    /\ mapYear' = IF mapYear + 1 > MaxYear THEN MinYear ELSE mapYear + 1
    /\ globalRankingsData' = countryStats(gdpData, pppData, mapYear')
    /\ rankingRows' = rankingRowsOf(globalRankingsData', rankingsSearchQuery,
                                    rankingsSortField, rankingsSortAsc)
    /\ tickedWhileStopped' = (tickedWhileStopped \/ ~isPlaying)
    /\ UNCHANGED <<fetchVars, timerFired, listeners, dataVars, viewVars, isPlaying,
                   playInterval, intervals, nextIntervalId, sortVars, tableCodes,
                   earlyStages, otherVars>>

(* input on the map year slider *)
MapYearInput(year) ==
    /\ "ui" \in listeners
    /\ mapYear' = year
    /\ IF currentView = "map"
       THEN /\ globalRankingsData' = countryStats(gdpData, pppData, year)
            /\ rankingRows' = rankingRowsOf(globalRankingsData', rankingsSearchQuery,
                                            rankingsSortField, rankingsSortAsc)
       ELSE UNCHANGED <<globalRankingsData, rankingRows>>
    /\ UNCHANGED <<fetchVars, timerFired, listeners, dataVars, viewVars, playVars,
                   sortVars, tableCodes, earlyStages, otherVars>>

(* click on a view button; the ratio view forces setPriceType('current') *)
ViewClick(view) ==
    /\ "ui" \in listeners
    /\ currentView' = view
    /\ priceType' = IF view = "ratio" THEN "current" ELSE priceType
    /\ gdpData' = IF view = "ratio" THEN activeGdp("current", rawData) ELSE gdpData
    /\ pppData' = IF view = "ratio" THEN activePpp("current", rawData) ELSE pppData
    /\ IF view = "map"
       THEN /\ globalRankingsData' = countryStats(gdpData, pppData, mapYear)
            /\ rankingRows' = rankingRowsOf(globalRankingsData', rankingsSearchQuery,
                                            rankingsSortField, rankingsSortAsc)
            /\ UNCHANGED tableCodes
       ELSE /\ tableCodes' = tableCodesOf(gdpData', pppData', countries,
                                          selectedCountries)
            /\ UNCHANGED <<globalRankingsData, rankingRows>>
    /\ UNCHANGED <<fetchVars, timerFired, listeners, rawData, countries, geoData,
                   selectedCountries, yearStart, yearEnd, mapYear, playVars,
                   sortVars, earlyStages, otherVars>>

(* the price button handler without its test of the view *)
PriceClickAnyView(type) ==
    /\ "ui" \in listeners
    /\ priceType' = type
    /\ gdpData' = activeGdp(type, rawData)
    /\ pppData' = activePpp(type, rawData)
    /\ IF currentView = "map"
       THEN /\ globalRankingsData' = countryStats(gdpData', pppData', mapYear)
            /\ rankingRows' = rankingRowsOf(globalRankingsData', rankingsSearchQuery,
                                            rankingsSortField, rankingsSortAsc)
       ELSE UNCHANGED <<globalRankingsData, rankingRows>>
    /\ tableCodes' = tableCodesOf(gdpData', pppData', countries, selectedCountries)
    /\ UNCHANGED <<fetchVars, timerFired, listeners, rawData, countries, geoData,
                   selectedCountries, currentView, yearStart, yearEnd, mapYear,
                   playVars, sortVars, earlyStages, otherVars>>

(* click on a price button: ignored in the ratio view, else setPriceType *)
PriceClick(type) ==
    /\ "ui" \in listeners
    /\ currentView # "ratio"
    /\ priceType' = type
    /\ gdpData' = activeGdp(type, rawData)
    /\ pppData' = activePpp(type, rawData)
    /\ IF currentView = "map"
       THEN /\ globalRankingsData' = countryStats(gdpData', pppData', mapYear)
            /\ rankingRows' = rankingRowsOf(globalRankingsData', rankingsSearchQuery,
                                            rankingsSortField, rankingsSortAsc)
       ELSE UNCHANGED <<globalRankingsData, rankingRows>>
    /\ tableCodes' = tableCodesOf(gdpData', pppData', countries, selectedCountries)
    /\ UNCHANGED <<fetchVars, timerFired, listeners, rawData, countries, geoData,
                   selectedCountries, currentView, yearStart, yearEnd, mapYear,
                   playVars, sortVars, earlyStages, otherVars>>

(* The life cycle: the fetches, init, the timer, and the handlers that the *)
(* timer registers.                                                        *)
Next ==
    \/ \E f \in Fetches : FetchResolve(f)
    \/ \E f \in Fetches : FetchReject(f)
    \/ \E f \in Fetches, s \in SavedYears, e \in SavedYears : InitCompletes(f, s, e)
    \/ ListenerTimer
    \/ \E field \in DataSortFields : DataSortClick(field)
    \/ \E query \in SearchQueries : RankingSearchInput(query)

Spec == Init /\ [][Next]_vars

(* The loaded application: init has completed, the timer may have run.     *)
PlayInit ==
    /\ fetchStatus = [f \in Fetches |-> "ok"]
    /\ initState = "ready"
    /\ alertShown = FALSE
    /\ loadingHidden = TRUE
    /\ timerFired \in BOOLEAN
    /\ listeners = IF timerFired THEN {"ui", "rankings", "dataSort"} ELSE {"ui"}
    /\ rawData = loadRawData
    /\ gdpData = activeGdp("current", rawData)
    /\ pppData = activePpp("current", rawData)
    /\ countries = countryList(rawData)
    /\ geoData = GeoFixture
    /\ selectedCountries = <<>>
    /\ currentView = "gdp"
    /\ priceType = "current"
    /\ \E s \in SavedYears, e \in SavedYears :
          /\ yearStart = loadSettings(s, e, 1990, 2024).yearStart
          /\ yearEnd = loadSettings(s, e, 1990, 2024).yearEnd
    /\ mapYear = 2023
    /\ isPlaying = FALSE
    /\ playInterval = 0
    /\ intervals = {}
    /\ nextIntervalId = 1
    /\ dataSortField = "gdp"
    /\ dataSortAsc = FALSE
    /\ rankingsSortField = "rank"
    /\ rankingsSortAsc = TRUE
    /\ rankingsSearchQuery = <<>>
    /\ globalRankingsData = <<>>
    /\ rankingRows = <<>>
    /\ tableCodes = tableCodesOf(gdpData, pppData, countries, selectedCountries)
    /\ earlyStages = {}
    /\ tickedWhileStopped = FALSE
    /\ mergeDoc = <<>>
    /\ mergeKey = "none"
    /\ merges = 0
    /\ repeatedMerge = FALSE
    /\ PureIdle
    /\ line = <<>>
    /\ parts = NotParsed
    /\ csvDoc = <<>>
    /\ data = EmptyObject

PlayNext ==
    \/ TogglePlay
    \/ \E id \in 1..MaxIntervalId : PlayTick(id)
    \/ \E year \in MapYearInputs : MapYearInput(year)
    \/ \E view \in Views : ViewClick(view)
    \/ \E type \in PriceTypes : PriceClick(type)
    \/ \E field \in RankingSortFields : RankingMetricChange(field)
    \/ \E field \in RankingSortFields : RankingSortClick(field)
    \/ \E query \in SearchQueries : RankingSearchInput(query)

SpecPlay == PlayInit /\ [][PlayNext]_vars

(* C1: once a fetch of init has failed no store is populated, no listener  *)
(* is registered, nothing is rendered and the load failure is reported.    *)
C1_FailedFetchAbortsInit ==
    (\E f \in Fetches : fetchStatus[f] = "failed") =>
        /\ rawData = EmptyRawData
        /\ gdpData = EmptyObject
        /\ pppData = EmptyObject
        /\ countries = {}
        /\ listeners = {}
        /\ tableCodes = {}
        /\ globalRankingsData = <<>>
        /\ rankingRows = <<>>
        /\ alertShown

(* C2: no pipeline stage has run while a fetch of init is still pending. *)
C2_NoStageBeforeFetches == earlyStages = {}

(* C3: at most one interval timer is active, one is active exactly when    *)
(* isPlaying is true (and it is the one in playInterval), and no tick has  *)
(* fired while playback was stopped.                                       *)
C3_PlaybackTimer ==
    /\ Cardinality(intervals) <= 1
    /\ (intervals # {}) <=> isPlaying
    /\ isPlaying => intervals = {playInterval}
    /\ ~tickedWhileStopped

C3_Witness ==
    /\ ~isPlaying
    /\ nextIntervalId = 3
    /\ mapYear = 1962

----------------------------------------------------------------------------
(* The tokenizer on every line. *)

LineInit ==
    /\ AppInit
    /\ line \in LinesUpTo(MaxLineLen)
    /\ parts = NotParsed
    /\ csvDoc = <<>>
    /\ data = EmptyObject
    /\ rawData = EmptyRawData
    /\ mergeDoc = <<>>
    /\ mergeKey = "none"
    /\ merges = 0
    /\ repeatedMerge = FALSE
    /\ PureIdle

TokenizeLine ==
    /\ parts = NotParsed
    /\ parts' = parseCSVLine(line)
    /\ UNCHANGED <<line, csvVars, mergeVars, appVars, pureVars>>

LineNext == TokenizeLine

SpecLine == LineInit /\ [][LineNext]_vars

(* Written from the claim, not from the loop: position i of l is inside a  *)
(* quoted field iff an odd number of quote characters precede it.          *)
QuotesBefore(l, i) == Cardinality({j \in 1..(i - 1) : l[j] = "\""})
OutsideCommas(l) ==
    {i \in 1..Len(l) : l[i] = "," /\ QuotesBefore(l, i) % 2 = 0}
InsideCommas(l) ==
    {i \in 1..Len(l) : l[i] = "," /\ QuotesBefore(l, i) % 2 = 1}
CommasIn(ps) ==
    Cardinality({<<k, j>> \in (1..Len(ps)) \X (1..MaxLineLen + 1) :
                    j <= Len(ps[k]) /\ ps[k][j] = ","})

(* C8: parseCSVLine splits only at commas outside quotes: the token count  *)
(* is one plus the number of outside commas, every comma inside quotes is  *)
(* kept in a token, and no token keeps a quote character.                  *)
C8_SplitOutsideQuotes ==
    parts # NotParsed =>
        /\ Len(parts) = 1 + Cardinality(OutsideCommas(line))
        /\ CommasIn(parts) = Cardinality(InsideCommas(line))
        /\ \A k \in 1..Len(parts) : \A j \in 1..Len(parts[k]) : parts[k][j] # "\""

C8_Witness ==
    /\ parts # NotParsed
    /\ InsideCommas(line) # {}
    /\ OutsideCommas(line) # {}

----------------------------------------------------------------------------
(* parseCSV on every table of CsvDocs. *)

CsvInit ==
    /\ AppInit
    /\ csvDoc \in CsvDocs
    /\ data = NoStore
    /\ line = <<>>
    /\ parts = NotParsed
    /\ rawData = EmptyRawData
    /\ mergeDoc = <<>>
    /\ mergeKey = "none"
    /\ merges = 0
    /\ repeatedMerge = FALSE
    /\ PureIdle

ParseTable ==
    /\ data = NoStore
    /\ data' = parseCSV(csvText(csvDoc))
    /\ UNCHANGED <<csvDoc, lineVars, mergeVars, appVars, pureVars>>

CsvNext == ParseTable

SpecCSV == CsvInit /\ [][CsvNext]_vars

(* What the claims say about a table, read off the table as built: the     *)
(* text of a cell is the cell without its quote characters and outer       *)
(* blanks, the tokens of a line are its cells.                             *)
CellText(c) == trim(SelectSeq(c, LAMBDA ch : ch # "\""))
HasHeader(doc) == Len(doc) >= 5
HeaderCells(doc) == doc[5]
DataRows(doc) == IF Len(doc) > 5 THEN SubSeq(doc, 6, Len(doc)) ELSE <<>>
Has1960(doc) ==
    /\ HasHeader(doc)
    /\ \E j \in 1..Len(HeaderCells(doc)) : CellText(HeaderCells(doc)[j]) = Y1960
First1960(doc) ==
    CHOOSE j \in 1..Len(HeaderCells(doc)) :
        /\ CellText(HeaderCells(doc)[j]) = Y1960
        /\ \A k \in 1..(j - 1) : CellText(HeaderCells(doc)[k]) # Y1960
IsIntegerText(s) == s # <<>> /\ \A i \in 1..Len(s) : IsDigit(s[i])
lookup(store, code, year) ==
    IF hasKey(store, code) /\ hasKey(store[code].values, year)
    THEN store[code].values[year]
    ELSE undefined

(* The value a cell stands for: a number when the whole cell is one, the   *)
(* no-data marker when it is blank or not a number.                        *)
CellNumber(c) ==
    CASE c = <<"7">> -> Num(7, 0)
      [] c = <<"0">> -> Num(0, 0)
      [] c = <<"3">> -> Num(3, 0)
      [] c = <<"4">> -> Num(4, 0)
      [] c = <<"9">> -> Num(9, 0)
      [] c = <<"1", ".", "5">> -> Num(15, 1)
      [] c = <<"-", "2">> -> Num(-2, 0)
      [] OTHER -> null

(* C5: without a fifth line, or without a header cell equal to 1960, the   *)
(* returned store is empty whatever the data rows are.                     *)
C5_NoStartYearEmptyStore ==
    (data # NoStore /\ ~Has1960(csvDoc)) => data = EmptyObject

C5_Witness ==
    /\ data = EmptyObject
    /\ HasHeader(csvDoc)
    /\ ~Has1960(csvDoc)
    /\ \E i \in 1..Len(DataRows(csvDoc)) : Len(DataRows(csvDoc)[i]) >= 5

(* C6: a data row of fewer than five tokens adds no entry and changes      *)
(* none: the store is the store of the table without its short rows, and   *)
(* every code of the store is the code of a row of five or more tokens.    *)
WithoutShortRows(doc) ==
    IF Len(doc) <= 5 THEN doc
    ELSE SubSeq(doc, 1, 5) \o SelectSeq(DataRows(doc), LAMBDA r : Len(r) >= 5)

C6_ShortRowsSkipped ==
    data # NoStore =>
        /\ data = parseCSV(csvText(WithoutShortRows(csvDoc)))
        /\ \A code \in DOMAIN data :
              \E i \in 1..Len(DataRows(csvDoc)) :
                  /\ Len(DataRows(csvDoc)[i]) >= 5
                  /\ CellText(DataRows(csvDoc)[i][2]) = code

C6_Witness ==
    /\ data # NoStore
    /\ Len(DataRows(csvDoc)) = 2
    /\ Len(DataRows(csvDoc)[1]) = 4
    /\ Len(DataRows(csvDoc)[2]) >= 5
    /\ DataRows(csvDoc)[1][2] = DataRows(csvDoc)[2][2]
    /\ DOMAIN data = {CodeA}
    /\ lookup(data, CodeA, Y1960) = Num(7, 0)

(* C7: every year key of the store is the text of a header cell at or      *)
(* after the 1960 column that is a valid integer.                          *)
C7_YearKeysAreIntegers ==
    data # NoStore =>
        \A code \in DOMAIN data : \A key \in DOMAIN data[code].values :
            /\ IsIntegerText(key)
            /\ \E j \in First1960(csvDoc)..Len(HeaderCells(csvDoc)) :
                  CellText(HeaderCells(csvDoc)[j]) = key

(* C4: for every data row of five or more tokens whose code no other row   *)
(* carries, and every year column the row has a cell for, the lookup       *)
(* returns the number the cell stands for, or the no-data marker for a     *)
(* blank or non-numeric cell.                                              *)
YearColumns(doc) ==
    {j \in First1960(doc)..Len(HeaderCells(doc)) :
        /\ IsIntegerText(CellText(HeaderCells(doc)[j]))
        /\ \A k \in First1960(doc)..Len(HeaderCells(doc)) :
              k # j => CellText(HeaderCells(doc)[k]) # CellText(HeaderCells(doc)[j])}

C4_RoundTrip ==
    (data # NoStore /\ Has1960(csvDoc)) =>
        \A i \in 1..Len(DataRows(csvDoc)) :
            LET r == DataRows(csvDoc)[i] IN
            (/\ Len(r) >= 5
             /\ \A k \in 1..Len(DataRows(csvDoc)) :
                   (k # i /\ Len(DataRows(csvDoc)[k]) >= 5)
                       => CellText(DataRows(csvDoc)[k][2]) # CellText(r[2]))
            => \A j \in YearColumns(csvDoc) :
                  j <= Len(r) =>
                      lookup(data, CellText(r[2]), CellText(HeaderCells(csvDoc)[j]))
                          = CellNumber(r[j])
----------------------------------------------------------------------------
(* mergeStateData on the stores parsed from the country tables (init,      *)
(* steps 2 and 3).                                                         *)

MergeInit ==
    /\ AppInit
    /\ rawData = ParsedRawData
    /\ mergeDoc = <<>>
    /\ mergeKey = "none"
    /\ merges = 0
    /\ repeatedMerge = FALSE
    /\ PureIdle
    /\ line = <<>>
    /\ parts = NotParsed
    /\ csvDoc = <<>>
    /\ data = EmptyObject

MergeState(doc, key) ==
    /\ merges < MaxMerges
    /\ rawData' = [rawData EXCEPT ![key] = mergeStateData(csvText(doc), @)]
    /\ mergeDoc' = doc
    /\ mergeKey' = key
    /\ merges' = merges + 1
    /\ repeatedMerge' = (merges > 0 /\ doc = mergeDoc /\ key = mergeKey)
    /\ UNCHANGED <<lineVars, csvVars, appVars, pureVars>>

MergeNext == \E doc \in StateDocs, key \in RawKeys : MergeState(doc, key)

SpecMerge == MergeInit /\ [][MergeNext]_vars

(* The code each region name of StateDocs is to get, written out. *)
CodeAAA == <<"U", "S", "A", "_", "S", "T", "_", "A", "A", "A">>
CodeA_B == <<"U", "S", "A", "_", "S", "T", "_", "A", "_", "B">>
CodeQuoted == <<"U", "S", "A", "_", "S", "T", "_", "A", ",", "_", "B">>
ExpectedCode(name) ==
    CASE name = NameAAA -> CodeAAA
      [] name \in {NameLower, NameUpper, NameWide} -> CodeA_B
      [] name = <<"a", ",", " ", "b">> -> CodeQuoted
StateRows(doc) ==
    {i \in 2..Len(doc) : Len(doc[i]) >= 2}

(* C9: every year key present in a store maps to a number or to the        *)
(* no-data marker, never to NaN, after the parse and after every merge.    *)
C9_NoNaNInStores ==
    \A key \in RawKeys : \A code \in DOMAIN rawData[key] :
        \A year \in DOMAIN rawData[key][code].values :
            rawData[key][code].values[year].t \in {"num", "null"}

(* C10: a merge writes, for each region row, the code fixed by the row's   *)
(* name, and that code is never a 3-letter code: every entry under a       *)
(* 3-letter code is the same after the merge as before, and no entry       *)
(* appears under a 3-letter code.                                          *)
C10_MergeKeepsCountries ==
    [][merges' = merges + 1 =>
         /\ \A key \in RawKeys : \A code \in DOMAIN rawData[key] :
               Len(code) = 3 =>
                   /\ hasKey(rawData'[key], code)
                   /\ rawData'[key][code] = rawData[key][code]
         /\ \A key \in RawKeys : \A code \in DOMAIN rawData'[key] :
               Len(code) = 3 => hasKey(rawData[key], code)
         /\ \A i \in StateRows(mergeDoc') :
               LET code == ExpectedCode(CellText(mergeDoc'[i][1]))
               IN  /\ hasKey(rawData'[mergeKey'], code)
                   /\ rawData'[mergeKey'][code].name = CellText(mergeDoc'[i][1])
                          \/ \E j \in StateRows(mergeDoc') :
                                 /\ j > i
                                 /\ ExpectedCode(CellText(mergeDoc'[j][1])) = code
    ]_vars

C10_Witness ==
    /\ merges = 2
    /\ hasKey(rawData[mergeKey], CodeAAA)
    /\ hasKey(rawData[mergeKey], CodeA_B)
    /\ hasKey(rawData[mergeKey], CodeA)
    /\ rawData[mergeKey][CodeA] = ParsedRawData[mergeKey][CodeA]
    /\ NameAAA \in {mergeDoc[i][1] : i \in StateRows(mergeDoc)}

(* C11: after a merge every region row of the merged table has an entry of *)
(* its own in the target store: no region's entry was taken by a row of    *)
(* another name of the same table.                                         *)
C11_NoCollisionAmongRegions ==
    merges > 0 =>
        \A i \in StateRows(mergeDoc) :
            \E code \in DOMAIN rawData[mergeKey] :
                rawData[mergeKey][code].name = CellText(mergeDoc[i][1])

(* C12: a call of mergeStateData with the text and the target key of the   *)
(* call before it leaves every store as it was: the same codes, and the    *)
(* same name and values for each code.                                     *)
C12_MergeIdempotent ==
    [][(merges' = merges + 1 /\ repeatedMerge') => rawData' = rawData]_vars

C12_Witness ==
    /\ repeatedMerge
    /\ merges = 2
    /\ StateRows(mergeDoc) # {}
    /\ hasKey(rawData[mergeKey], CodeAAA)
    /\ hasKey(rawData[mergeKey], CodeA_B)

----------------------------------------------------------------------------
(* The values a store can hold for a year, and a missing key. *)
ValuePool ==
    {undefined, null, NaN, Num(0, 0), Num(-4, 0), Num(5, 0), Num(8, 0),
     Num(25, 1), Num(20, 0)}
MaxSpan == 2
YearSpans == (-1)..MaxSpan

BaseInit ==
    /\ AppInit
    /\ rawData = EmptyRawData
    /\ mergeDoc = <<>>
    /\ mergeKey = "none"
    /\ merges = 0
    /\ repeatedMerge = FALSE
    /\ line = <<>>
    /\ parts = NotParsed
    /\ csvDoc = <<>>
    /\ data = EmptyObject

GrowthInit ==
    /\ BaseInit
    /\ SortIdle
    /\ ColorIdle
    /\ PathIdle
    /\ ExportIdle
    /\ endVal \in ValuePool
    /\ startVal \in ValuePool
    /\ yearSpan \in YearSpans
    /\ growthPeriod = NotRun
    /\ cagr = NotRun
    /\ tableGrowth = NotRun
    /\ mapGrowth = NotRun

exceptGrowth ==
    <<lineVars, csvVars, mergeVars, appVars, sortingVars, colorVars, pathVars,
      exported>>

(* updateInsights: the statistics of one selected region *)
InsightStats ==
    /\ growthPeriod = NotRun
    /\ growthPeriod' = growthValue(endVal, startVal)
    /\ cagr' = cagrValue(endVal, startVal, yearSpan)
    /\ UNCHANGED <<endVal, startVal, yearSpan, tableGrowth, mapGrowth, exceptGrowth>>

(* updateDataTable: the growth of one row *)
TableGrowth ==
    /\ tableGrowth = NotRun
    /\ tableGrowth' = growthValue(endVal, startVal)
    /\ UNCHANGED <<endVal, startVal, yearSpan, growthPeriod, cagr, mapGrowth,
                   exceptGrowth>>

(* renderMap: the five-year growth of one region *)
MapGrowth ==
    /\ mapGrowth = NotRun
    /\ mapGrowth' = growthValue(endVal, startVal)
    /\ UNCHANGED <<endVal, startVal, yearSpan, growthPeriod, cagr, tableGrowth,
                   exceptGrowth>>

GrowthNext == InsightStats \/ TableGrowth \/ MapGrowth

SpecGrowth == GrowthInit /\ [][GrowthNext]_vars

(* What the claims say, from the two endpoint values as stored. *)
Present(v) == v.t = "num"
QuotientIs(out, num, den) == out.n * den = out.d * num
GrowthIs(out, vEnd, vStart) ==
    /\ out.t = "frac"
    /\ QuotientIs(out, 100 * (vEnd.m * Pow10(vStart.e) - vStart.m * Pow10(vEnd.e)),
                  vStart.m * Pow10(vEnd.e))
GrowthRight(out) ==
    out.t # "notrun" =>
        IF Present(endVal) /\ Present(startVal) /\ startVal.m # 0
        THEN GrowthIs(out, endVal, startVal)
        ELSE out.t = "null"

(* C13: growth is (end - start) / start * 100 when both endpoints are      *)
(* present and start is nonzero, also for an end value of 0, and null in   *)
(* every other case; at each of the three places that compute it.          *)
C13_GrowthFormula ==
    /\ GrowthRight(growthPeriod)
    /\ GrowthRight(tableGrowth)
    /\ GrowthRight(mapGrowth)

(* C14: the CAGR is null when yearSpan <= 0, an endpoint is missing or the *)
(* start value is <= 0, and (pow(end / start, 1 / yearSpan) - 1) * 100     *)
(* otherwise.                                                              *)
C14_CagrFormula ==
    cagr.t # "notrun" =>
        IF \/ yearSpan <= 0
           \/ ~Present(endVal)
           \/ ~Present(startVal)
           \/ startVal.m <= 0
        THEN cagr.t = "null"
        ELSE IF endVal.m = 0
             THEN cagr.t = "frac" /\ cagr.n = -100 * cagr.d
        ELSE IF yearSpan = 1
             THEN GrowthIs(cagr, endVal, startVal)
        ELSE IF endVal.m < 0
             THEN cagr.t = "NaN"
        ELSE /\ cagr.t = "rootpct"
             /\ cagr.k = yearSpan
             /\ QuotientIs(cagr, endVal.m * Pow10(startVal.e),
                           startVal.m * Pow10(endVal.e))

----------------------------------------------------------------------------
(* The ranking snapshot of the loaded application (SpecPlay). *)

(* The ratio of the current-price values of a region for a year. *)
RatioFromCurrent(code, y, out) ==
    LET g == lookup(rawData.gdpCurrent, code, yearKey(y))
        p == lookup(rawData.pppCurrent, code, yearKey(y))
    IN  IF Present(g) /\ Present(p) /\ g.m # 0 /\ p.m # 0
        THEN out.t = "frac" /\ QuotientIs(out, g.m * Pow10(p.e), p.m * Pow10(g.e))
        ELSE out.t = "null"

(* C15: the ratios of the ranking snapshot are, for some year, the ratios  *)
(* of the current-price GDP and PPP stores, whatever the price type is.    *)
C15_RatioFromCurrentPrices ==
    \E y \in MinYear..MaxYear :
        \A i \in 1..Len(globalRankingsData) :
            RatioFromCurrent(globalRankingsData[i].code, y, globalRankingsData[i].ratio)

(* v1 >= v2 for two stored numbers *)
AtLeast(v1, v2) == v1.m * Pow10(v2.e) >= v2.m * Pow10(v1.e)

(* C17: the snapshot is ordered descending by GDP, and each row of the     *)
(* rankings table shows the 1-based place of its region in the snapshot,   *)
(* under every search text, sort field and direction; without a search     *)
(* text the ranks shown are exactly 1..N.                                  *)
C17_RankIsPlaceInSnapshot ==
    /\ \A i, j \in 1..Len(globalRankingsData) :
          i < j => AtLeast(globalRankingsData[i].gdp, globalRankingsData[j].gdp)
    /\ \A r \in 1..Len(rankingRows) :
          /\ rankingRows[r].rank \in 1..Len(globalRankingsData)
          /\ globalRankingsData[rankingRows[r].rank].code = rankingRows[r].code
    /\ rankingsSearchQuery = <<>> =>
          {rankingRows[r].rank : r \in 1..Len(rankingRows)}
              = 1..Len(globalRankingsData)

C17_Witness ==
    /\ rankingsSearchQuery = <<"B">>
    /\ rankingsSortField = "gdp"
    /\ Len(globalRankingsData) = 3
    /\ Len(rankingRows) = 1
    /\ rankingRows[1].rank = 3

(* C18: a step that changes the map year or the price type leaves the      *)
(* ranking snapshot equal to the ranking of the now-active stores at the   *)
(* now-current map year.                                                   *)
C18_RankingRecomputed ==
    [][(mapYear' # mapYear \/ priceType' # priceType) =>
          globalRankingsData' =
              countryStats(activeGdp(priceType', rawData'),
                           activePpp(priceType', rawData'), mapYear')]_vars

----------------------------------------------------------------------------
(* The sort of the data table and of the rankings table, on every list of  *)
(* MaxSortRows entries whose metrics are drawn from MetricPool.            *)

MaxSortRows == 3
MetricPool == {null, Num(-4, 0), Num(0, 0), Num(50, 0), Num(80, 0)}
MetricFields == {"gdp", "ppp", "ratio", "growth"}
RowCodes == <<"A", "B", "C", "D">>
metricRow(code, v) ==
    [code |-> code, gdp |-> v, ppp |-> v,
     ratio |-> IF v.t = "num" THEN toFrac(v) ELSE v,
     growth |-> IF v.t = "num" THEN toFrac(v) ELSE v]

SortInit ==
    /\ BaseInit
    /\ GrowthIdle
    /\ ColorIdle
    /\ PathIdle
    /\ ExportIdle
    /\ \E vs \in [1..MaxSortRows -> MetricPool] :
          sortRows = [i \in 1..MaxSortRows |-> metricRow(RowCodes[i], vs[i])]
    /\ sortField \in MetricFields
    /\ sortAsc \in BOOLEAN
    /\ tableSorted = NotSorted
    /\ rankingSorted = NotSorted

(* updateDataTable: tableData.sort(...) *)
SortDataTable ==
    /\ tableSorted = NotSorted
    /\ tableSorted' =
          stableSort([i \in 1..Len(sortRows) |->
                         [key |-> tableSortKey(sortRows[i], sortField),
                          item |-> sortRows[i]]], sortAsc)
    /\ UNCHANGED <<sortRows, sortField, sortAsc, rankingSorted, growthVars,
                   colorVars, pathVars, exported, lineVars, csvVars, mergeVars,
                   appVars>>

(* renderGlobalRankings: [...filtered].sort(...), on a metric column *)
SortRankings ==
    /\ rankingSorted = NotSorted
    /\ sortField \in {"gdp", "ppp", "growth"}
    /\ rankingSorted' =
          stableSort([i \in 1..Len(sortRows) |->
                         [key |-> rankingSortKey(sortRows[i], sortField, sortRows),
                          item |-> sortRows[i]]], sortAsc)
    /\ UNCHANGED <<sortRows, sortField, sortAsc, tableSorted, growthVars,
                   colorVars, pathVars, exported, lineVars, csvVars, mergeVars,
                   appVars>>

SortNext == SortDataTable \/ SortRankings

SpecSort == SortInit /\ [][SortNext]_vars

(* In a table ordered descending no entry without a metric precedes an     *)
(* entry with one.                                                         *)
Computable(v) == v.t \in {"num", "frac"}
MissingLast(sorted) ==
    (sorted # NotSorted /\ ~sortAsc) =>
        \A i, j \in 1..Len(sorted) :
            (i < j /\ Computable(sorted[j][sortField])) =>
                Computable(sorted[i][sortField])

(* C16: ordered descending by a numeric metric, every entry whose metric   *)
(* is not computable comes after every entry whose metric is defined, 0    *)
(* and negative values included; in the data table and in the rankings.    *)
C16_MissingSortsLast ==
    /\ MissingLast(tableSorted)
    /\ MissingLast(rankingSorted)

----------------------------------------------------------------------------
(* The colour scale of the map, on every pair of regional values drawn     *)
(* from ColorPool.  Logarithms are not computed: the floor of              *)
(* ln(val) / ln(max) * p is found by comparing powers of val and max.      *)

colors == <<"#dbeafe", "#93c5fd", "#3b82f6", "#1d4ed8", "#1e3a8a">>
noDataColor == "#f3f4f6"
MaxFloor == 5

RECURSIVE Exp(_, _)
Exp(b, k) == IF k = 0 THEN 1 ELSE b * Exp(b, k - 1)

(* renderMap: the loop that finds max, starting from -Infinity *)
RECURSIVE maxOf(_, _)
maxOf(vals, max) ==
    IF vals = <<>> THEN max
    ELSE maxOf(Tail(vals),
               IF signOfDifference(valueOf(Head(vals)), max) > 0
               THEN valueOf(Head(vals)) ELSE max)

(* Math.min(Math.floor(Math.log(val) / Math.log(max) * p), p - 1), for     *)
(* numbers val and max given as quotients                                  *)
bucketIndex(val, max, p) ==
    LET log(x) == IF x.t # "frac" \/ x.n < 0 THEN "NaN"
                  ELSE IF x.n = 0 THEN "-inf"
                  ELSE IF x.n < x.d THEN "neg"
                  ELSE IF x.n = x.d THEN "zero"
                  ELSE "pos"
        \* the sign of max^k - val^p
        powCmp(k) ==
            LET l == IF k >= 0 THEN Exp(max.n, k) * Exp(val.d, p)
                     ELSE Exp(max.d, -k) * Exp(val.d, p)
                r == IF k >= 0 THEN Exp(val.n, p) * Exp(max.d, k)
                     ELSE Exp(val.n, p) * Exp(max.n, -k)
            IN  IF l < r THEN -1 ELSE IF l > r THEN 1 ELSE 0
        floor == IF log(max) = "pos"
                 THEN CHOOSE k \in (-MaxFloor)..MaxFloor :
                          powCmp(k) <= 0 /\ powCmp(k + 1) > 0
                 ELSE CHOOSE k \in (-MaxFloor)..MaxFloor :
                          powCmp(k) >= 0 /\ powCmp(k + 1) < 0
        min(k) == IF k < p - 1 THEN k ELSE p - 1
    IN  CASE log(val) = "NaN" \/ log(max) = "NaN" -> NaN
          [] log(val) = "-inf" /\ log(max) = "-inf" -> NaN
          [] log(val) = "-inf" /\ log(max) = "neg" -> Frac(p - 1, 1)
          [] log(val) = "-inf" -> NegInfinity
          [] log(max) = "-inf" -> Frac(0, 1)
          [] log(max) = "zero" /\ log(val) = "neg" -> NegInfinity
          [] log(max) = "zero" /\ log(val) = "zero" -> NaN
          [] log(max) = "zero" -> Frac(p - 1, 1)
          [] log(val) = "zero" -> Frac(0, 1)
          [] OTHER -> Frac(min(floor), 1)

(* renderMap: colorScale, with the index it reads the palette at *)
colorScale(val, max) ==
    IF val.t \in {"null", "undefined"}
    THEN [idx |-> NotRun, color |-> noDataColor]
    ELSE LET idx == bucketIndex(valueOf(val), max, Len(colors))
         IN  [idx |-> idx,
              color |-> IF idx.t = "frac" /\ idx.n \in 0..(Len(colors) - 1)
                        THEN colors[idx.n + 1] ELSE "undefined"]

ColorPool ==
    {undefined, null, Num(-4, 0), Num(0, 0), Num(5, 1), Num(1, 0),
     Num(2, 0), Num(25, 1), Num(3, 0), Num(6, 0), Num(8, 0)}

ColorInit ==
    /\ BaseInit
    /\ GrowthIdle
    /\ SortIdle
    /\ PathIdle
    /\ ExportIdle
    /\ colorVal \in ColorPool
    /\ colorOther \in ColorPool
    /\ fill = NotFilled

(* renderMap: the fill of one region among the two that have data *)
MapFill ==
    /\ fill = NotFilled
    /\ LET gdps == SelectSeq(<<colorVal, colorOther>>,
                             LAMBDA v : v.t \notin {"null", "undefined"})
       IN  fill' = colorScale(colorVal, maxOf(gdps, NegInfinity))
    /\ UNCHANGED <<colorVal, colorOther, growthVars, sortingVars, pathVars,
                   exported, lineVars, csvVars, mergeVars, appVars>>

ColorNext == MapFill

SpecColor == ColorInit /\ [][ColorNext]_vars

(* The value of the region and the larger of the two values, as the claims *)
(* read them.                                                              *)
IsNumber(v) == v.t = "num"
Larger ==
    IF ~IsNumber(colorOther) THEN colorVal
    ELSE IF colorVal.m * Pow10(colorOther.e) >= colorOther.m * Pow10(colorVal.e)
    THEN colorVal ELSE colorOther
PaletteIndex(x) == x.t = "frac" /\ x.d = 1 /\ x.n \in 0..(Len(colors) - 1)

(* C19: a value of 0 or below is filled with the no-data colour, and no    *)
(* value gets an undefined colour or a bucket computed from NaN or         *)
(* -Infinity.                                                              *)
C19_NonPositiveIsNoData ==
    fill # NotFilled =>
        /\ (IsNumber(colorVal) /\ colorVal.m <= 0) => fill.color = noDataColor
        /\ fill.color \in {noDataColor} \cup {colors[i] : i \in 1..Len(colors)}
        /\ fill.idx.t \notin {"NaN", "-inf"}

(* max^i <= v^k, for i >= 0 and positive v and max *)
PowerAtMost(max, i, v, k) ==
    LET m == toFrac(max)
        w == toFrac(v)
    IN  Exp(m.n, i) * Exp(w.d, k) <= Exp(w.n, k) * Exp(m.d, i)

(* C20: a positive value v gets the bucket min(floor(t * k), k - 1) with   *)
(* t = ln(v) / ln(max) clamped into [0, 1): an index of the palette, also  *)
(* when v < 1 or max <= 1.                                                 *)
C20_BucketIndex ==
    (fill # NotFilled /\ IsNumber(colorVal) /\ colorVal.m > 0) =>
        LET k == Len(colors)
            max == Larger
            above1 == max.m > Pow10(max.e)
        IN  /\ PaletteIndex(fill.idx)
            /\ fill.color = colors[fill.idx.n + 1]
            /\ above1 =>
                  /\ fill.idx.n = 0 \/ PowerAtMost(max, fill.idx.n, colorVal, k)
                  /\ fill.idx.n = k - 1
                        \/ ~PowerAtMost(max, fill.idx.n + 1, colorVal, k)

(* C21: when all values of the map year are equal every region with a      *)
(* value gets the first colour of the palette, and the bucket is not       *)
(* computed from a division by zero or NaN.                                *)
C21_EqualValuesFirstColor ==
    (/\ fill # NotFilled
     /\ IsNumber(colorVal)
     /\ ~IsNumber(colorOther) \/ colorOther = colorVal) =>
        /\ fill.color = colors[1]
        /\ fill.idx.t \notin {"NaN", "-inf"}

----------------------------------------------------------------------------
(* generatePathData.  A JavaScript array is Arr(items); a path string is   *)
(* the sequence of its commands [cmd, x, y], x in hundredths of a pixel.   *)
(* y is [k |-> "px", v] for v hundredths of a pixel where the Mercator     *)
(* ordinate is a known fraction of mercMax (latitudes -85, 0 and 85), and  *)
(* [k |-> "merc", v] for the ordinate of latitude v elsewhere.             *)

MapWidth == 1000
MapHeight == 600
maxLat == 85
Arr(items) == [t |-> "array", items |-> items]
Geom(type, coordinates) ==
    [t |-> "object", type |-> type, coordinates |-> coordinates]
EmptyString == [t |-> "string", s |-> <<>>]
TypeError == [t |-> "TypeError", s |-> <<>>]

(* x.toFixed(2) for x = n / d >= 0, in hundredths *)
toFixed2(n, d) == (2 * 100 * n + d) \div (2 * d)

(* project without the clamp of the latitude *)
projectNoClamp(coords, width, height) ==
    LET lon == coords[1]
        lat == coords[2]
    IN  [x |-> toFixed2((lon + 180) * width, 360),
         y |-> IF lat = maxLat THEN [k |-> "px", v |-> 0]
               ELSE IF lat = -maxLat THEN [k |-> "px", v |-> toFixed2(height, 1)]
               ELSE IF lat = 0 THEN [k |-> "px", v |-> toFixed2(height, 2)]
               ELSE [k |-> "merc", v |-> lat]]

(* generatePathData: project *)
project(coords, width, height) ==
    LET lon == coords[1]
        min == IF coords[2] < maxLat THEN coords[2] ELSE maxLat
        lat == IF min > -maxLat THEN min ELSE -maxLat
    IN  [x |-> toFixed2((lon + 180) * width, 360),
         y |-> IF lat = maxLat THEN [k |-> "px", v |-> 0]
               ELSE IF lat = -maxLat THEN [k |-> "px", v |-> toFixed2(height, 1)]
               ELSE IF lat = 0 THEN [k |-> "px", v |-> toFixed2(height, 2)]
               ELSE [k |-> "merc", v |-> lat]]

(* generatePathData: processRing; "M" + ring.map(project).join("L") + "Z" *)
processRing(ring, width, height) ==
    IF ring.t # "array" \/ Len(ring.items) = 0 THEN <<>>
    ELSE [i \in 1..Len(ring.items) |->
             LET pt == project(ring.items[i], width, height)
             IN  [cmd |-> IF i = 1 THEN "M" ELSE "L", x |-> pt.x, y |-> pt.y]]
         \o << [cmd |-> "Z", x |-> 0, y |-> [k |-> "px", v |-> 0]] >>

(* array.join(" ") of path strings *)
RECURSIVE joinPaths(_)
joinPaths(ps) ==
    IF ps = <<>> THEN <<>>
    ELSE IF Len(ps) = 1 THEN ps[1]
    ELSE ps[1] \o << [cmd |-> " ", x |-> 0, y |-> [k |-> "px", v |-> 0]] >>
         \o joinPaths(Tail(ps))

(* generatePathData; reading a property of undefined or null throws *)
generatePathData(g, width, height) ==
    IF g.t \in {"null", "undefined"} THEN EmptyString
    ELSE IF g.type = "Polygon"
    THEN IF g.coordinates.t # "array" THEN TypeError
         ELSE [t |-> "string",
               s |-> processRing(IF Len(g.coordinates.items) = 0 THEN undefined
                                 ELSE g.coordinates.items[1], width, height)]
    ELSE IF g.type = "MultiPolygon"
    THEN IF g.coordinates.t # "array" THEN TypeError
         ELSE IF \E i \in 1..Len(g.coordinates.items) :
                     g.coordinates.items[i].t # "array"
         THEN TypeError
         ELSE [t |-> "string",
               s |-> joinPaths([i \in 1..Len(g.coordinates.items) |->
                        LET polygon == g.coordinates.items[i].items
                        IN  processRing(IF Len(polygon) = 0 THEN undefined
                                        ELSE polygon[1], width, height)])]
    ELSE EmptyString

MaxRing == 2
Lons == {-180, 0, 90}
Lats == {-89, -85, 0, 45, 85, 89}
Rings == UNION {[1..n -> Lons \X Lats] : n \in 1..MaxRing}

(* Geometries without an outer ring to draw *)
BareGeometries ==
    << null, undefined,
       Geom("Point", Arr(<<0, 0>>)),
       Geom("Polygon", undefined),
       Geom("Polygon", null),
       Geom("Polygon", Arr(<<>>)),
       Geom("Polygon", Arr(<<undefined>>)),
       Geom("Polygon", Arr(<<Arr(<<>>)>>)),
       Geom("MultiPolygon", undefined),
       Geom("MultiPolygon", Arr(<<>>)),
       Geom("MultiPolygon", Arr(<<undefined>>)),
       Geom("MultiPolygon", Arr(<<Arr(<<>>)>>)),
       Geom("MultiPolygon", Arr(<<Arr(<<undefined>>)>>)),
       Geom("MultiPolygon", Arr(<<Arr(<<Arr(<<>>)>>)>>)),
       Geom("MultiPolygon", Arr(<<Arr(<<>>), Arr(<<>>)>>)) >>

PathInit ==
    /\ BaseInit
    /\ GrowthIdle
    /\ SortIdle
    /\ ColorIdle
    /\ ExportIdle
    /\ \/ \E i \in 1..Len(BareGeometries) : geometry = BareGeometries[i]
       \/ \E ring \in Rings :
             \/ geometry = Geom("Polygon", Arr(<<Arr(ring)>>))
             \/ geometry = Geom("MultiPolygon",
                                Arr(<<Arr(<<Arr(ring)>>), Arr(<<Arr(ring)>>)>>))
    /\ pathData = NoPath

(* renderMap: generatePathData(feature.geometry, width, height) *)
GeneratePath ==
    /\ pathData = NoPath
    /\ pathData' = generatePathData(geometry, MapWidth, MapHeight)
    /\ UNCHANGED <<geometry, growthVars, sortingVars, colorVars, exported,
                   lineVars, csvVars, mergeVars, appVars>>

PathNext == GeneratePath

SpecPath == PathInit /\ [][PathNext]_vars

(* The outer ring of a polygon that has one, and what is drawn of it. *)
IsDrawnPolygon ==
    /\ pathData # NoPath
    /\ geometry.t = "object"
    /\ geometry.type = "Polygon"
    /\ geometry.coordinates.t = "array"
    /\ Len(geometry.coordinates.items) > 0
    /\ geometry.coordinates.items[1].t = "array"
    /\ Len(geometry.coordinates.items[1].items) > 0
OuterRing == geometry.coordinates.items[1].items

(* C22: a vertex above latitude 85 is drawn where the vertex of the same   *)
(* longitude at latitude 85 is, and likewise below -85; latitude 85 is     *)
(* drawn at y = 0 and latitude -85 at y = H.                               *)
C22_LatitudeClamped ==
    IsDrawnPolygon =>
        /\ pathData.t = "string"
        /\ Len(pathData.s) = Len(OuterRing) + 1
        /\ \A i, j \in 1..Len(OuterRing) :
              (/\ OuterRing[i][1] = OuterRing[j][1]
               /\ \/ OuterRing[i][2] > 85 /\ OuterRing[j][2] = 85
                  \/ OuterRing[i][2] < -85 /\ OuterRing[j][2] = -85) =>
                  /\ pathData.s[i].x = pathData.s[j].x
                  /\ pathData.s[i].y = pathData.s[j].y
        /\ \A i \in 1..Len(OuterRing) :
              /\ OuterRing[i][2] = 85 => pathData.s[i].y = [k |-> "px", v |-> 0]
              /\ OuterRing[i][2] = -85 =>
                    pathData.s[i].y = [k |-> "px", v |-> MapHeight * 100]

C22_Witness ==
    /\ IsDrawnPolygon
    /\ \E i, j \in 1..Len(OuterRing) :
          /\ OuterRing[i] = <<0, 89>>
          /\ OuterRing[j] = <<0, 85>>

(* C23: a null geometry, a geometry of an unsupported type, and a polygon  *)
(* or multi-polygon without coordinates, ring-set or outer ring give the   *)
(* empty path, never an error.                                             *)
C23_EmptyGeometryEmptyPath ==
    (/\ pathData # NoPath
     /\ \E i \in 1..Len(BareGeometries) : geometry = BareGeometries[i]) =>
        pathData = EmptyString

----------------------------------------------------------------------------
(* The view, the price type and the map year of the loaded application.    *)

(* C26: in the ratio view the price type is 'current', and no step taken   *)
(* within the ratio view changes the price type.                           *)
C26_RatioViewIsCurrent ==
    /\ [](currentView = "ratio" => priceType = "current")
    /\ [][(currentView = "ratio" /\ currentView' = "ratio") =>
             priceType' = priceType]_vars

C26_Witness ==
    /\ currentView = "ratio"
    /\ priceType = "current"
    /\ globalRankingsData # <<>>

(* C29: the active stores are the current-price stores when the price type *)
(* is 'current' and the constant-price stores otherwise.                   *)
C29_ActiveStoresFollowPriceType ==
    IF priceType = "current"
    THEN gdpData = rawData.gdpCurrent /\ pppData = rawData.pppCurrent
    ELSE gdpData = rawData.gdpConstant /\ pppData = rawData.pppConstant

C29_Witness ==
    /\ priceType = "constant"
    /\ gdpData # rawData.gdpCurrent
    /\ pppData # rawData.pppCurrent

(* C30: the map year stays within 1960..2024; a playback tick advances it  *)
(* by one, and from 2024 to 1960.                                          *)
C30_MapYearInRange ==
    /\ [](mapYear \in 1960..2024)
    /\ [][(\E id \in 1..MaxIntervalId : PlayTick(id)) =>
             mapYear' = IF mapYear = 2024 THEN 1960 ELSE mapYear + 1]_vars

C30_Witness ==
    /\ mapYear = 1961
    /\ isPlaying

----------------------------------------------------------------------------
(* The selection of regions, the year range and the export, in the loaded  *)
(* application.  A behaviour is followed up to its first export.           *)

CodeZ == <<"Z", "Z", "Z">>
OptionLists == {<<CodeA>>, <<CodeB>>, <<CodeA, CodeB>>}
SearchCodes == {CodeA, CodeB}
YearInputs == {1960, 1961, 2024}
SelectViews == {"gdp", "map"}
Blank == [t |-> "blank", m |-> 0, e |-> 0]

arrayIncludes(seq, x) == \E i \in 1..Len(seq) : seq[i] = x
filterOut(seq, x) == SelectSeq(seq, LAMBDA c : c # x)

(* the country selector: each selected option not yet included is pushed *)
RECURSIVE pushOptions(_, _)
pushOptions(selected, options) ==
    IF options = <<>> THEN selected
    ELSE pushOptions(IF arrayIncludes(selected, Head(options)) THEN selected
                     ELSE Append(selected, Head(options)),
                     Tail(options))

(* renderMap, as far as the rankings go *)
renderMap(gdp, ppp) ==
    /\ globalRankingsData' = countryStats(gdp, ppp, mapYear)
    /\ rankingRows' = rankingRowsOf(globalRankingsData', rankingsSearchQuery,
                                    rankingsSortField, rankingsSortAsc)

(* updateVisualization with the selection it finds *)
updateVisualization(selected) ==
    IF currentView = "map"
    THEN /\ renderMap(gdpData, pppData)
         /\ UNCHANGED tableCodes
    ELSE /\ tableCodes' = tableCodesOf(gdpData, pppData, countries, selected)
         /\ UNCHANGED <<globalRankingsData, rankingRows>>

selectFrame ==
    <<fetchVars, timerFired, listeners, dataVars, currentView, priceType, mapYear,
      playVars, sortVars, earlyStages, otherVars>>

(* input on the start-year slider *)
YearStartInput(v) ==
    /\ "ui" \in listeners
    /\ exported = NotExported
    /\ yearStart' = v
    /\ yearEnd' = IF v >= yearEnd
                  THEN (IF v + 1 < 2024 THEN v + 1 ELSE 2024)
                  ELSE yearEnd
    /\ updateVisualization(selectedCountries)
    /\ UNCHANGED <<selectFrame, selectedCountries>>

(* input on the end-year slider *)
YearEndInput(v) ==
    /\ "ui" \in listeners
    /\ exported = NotExported
    /\ yearEnd' = v
    /\ yearStart' = IF v <= yearStart
                    THEN (IF v - 1 > 1960 THEN v - 1 ELSE 1960)
                    ELSE yearStart
    /\ updateVisualization(selectedCountries)
    /\ UNCHANGED <<selectFrame, selectedCountries>>

(* change of the country selector *)
CountrySelectChange(options) ==
    /\ "ui" \in listeners
    /\ exported = NotExported
    /\ selectedCountries' = pushOptions(selectedCountries, options)
    /\ updateVisualization(selectedCountries')
    /\ UNCHANGED <<selectFrame, yearStart, yearEnd>>

(* addCountryFromSearch: a search result or the add button of a table row *)
AddCountryFromSearch(code) ==
    /\ "ui" \in listeners
    /\ exported = NotExported
    /\ ~arrayIncludes(selectedCountries, code)
    /\ selectedCountries' = Append(selectedCountries, code)
    /\ updateVisualization(selectedCountries')
    /\ UNCHANGED <<selectFrame, yearStart, yearEnd>>

(* removeCountry: the button of a chip or of a table row *)
RemoveCountry(code) ==
    /\ "ui" \in listeners
    /\ exported = NotExported
    /\ arrayIncludes(selectedCountries, code)
    /\ \E c \in countries : c.code = code
    /\ selectedCountries' = filterOut(selectedCountries, code)
    /\ updateVisualization(selectedCountries')
    /\ UNCHANGED <<selectFrame, yearStart, yearEnd>>

(* the click handler of a map path that pushes without looking *)
MapPathClickPush(code) ==
    /\ currentView = "map"
    /\ exported = NotExported
    /\ code \in geoData
    /\ selectedCountries' = Append(selectedCountries, code)
    /\ tableCodes' = tableCodesOf(gdpData, pppData, countries, selectedCountries')
    /\ rankingRows' = rankingRowsOf(globalRankingsData, rankingsSearchQuery,
                                    rankingsSortField, rankingsSortAsc)
    /\ UNCHANGED <<selectFrame, yearStart, yearEnd, globalRankingsData>>

(* renderMap: click on the path of a feature *)
MapPathClick(code) ==
    /\ currentView = "map"
    /\ exported = NotExported
    /\ code \in geoData
    /\ IF arrayIncludes(selectedCountries, code)
       THEN /\ selectedCountries' = filterOut(selectedCountries, code)
            /\ renderMap(gdpData, pppData)
            /\ UNCHANGED tableCodes
       ELSE /\ selectedCountries' = Append(selectedCountries, code)
            /\ tableCodes' = tableCodesOf(gdpData, pppData, countries,
                                          selectedCountries')
            /\ rankingRows' = rankingRowsOf(globalRankingsData,
                                            rankingsSearchQuery,
                                            rankingsSortField, rankingsSortAsc)
            /\ UNCHANGED globalRankingsData
    /\ UNCHANGED <<selectFrame, yearStart, yearEnd>>

(* toggleCountryFromRankings: the button of a row of the rankings table *)
ToggleCountryFromRankings(code) ==
    /\ currentView = "map"
    /\ exported = NotExported
    /\ \E i \in 1..Len(rankingRows) : rankingRows[i].code = code
    /\ selectedCountries' =
          IF arrayIncludes(selectedCountries, code)
          THEN filterOut(selectedCountries, code)
          ELSE Append(selectedCountries, code)
    /\ tableCodes' =
          IF arrayIncludes(selectedCountries, code) THEN tableCodes
          ELSE tableCodesOf(gdpData, pppData, countries, selectedCountries')
    /\ renderMap(gdpData, pppData)
    /\ UNCHANGED <<selectFrame, yearStart, yearEnd>>

(* (g / p).toFixed(4) for a quotient n / d >= 0, in ten-thousandths *)
toFixed4(n, d) == (2 * 10000 * n + d) \div (2 * d)

(* exportToCSV: the rows after the header; state.gdpData[code].values     *)
(* throws for a code the store does not hold                               *)
exportToCSV(gdp, ppp, selected, start, end) ==
    LET n == IF end >= start THEN end - start + 1 ELSE 0
        row(code, y) ==
            LET gv == getValue(gdp, code, yearKey(y))
                pv == getValue(ppp, code, yearKey(y))
                g == IF truthy(gv) THEN gv ELSE Blank
                p == IF truthy(pv) THEN pv ELSE Blank
                q == div(toFrac(gv), toFrac(pv))
            IN  [name |-> gdp[code].name, year |-> y, g |-> g, p |-> p,
                 r |-> IF truthy(gv) /\ truthy(pv)
                       THEN [t |-> "fixed", m |-> toFixed4(q.n, q.d), e |-> 4]
                       ELSE Blank]
    IN  IF n > 0 /\ \E i \in 1..Len(selected) : ~hasKey(gdp, selected[i])
        THEN [t |-> "TypeError", rows |-> <<>>]
        ELSE [t |-> "csv",
              rows |-> [k \in 1..(Len(selected) * n) |->
                           row(selected[((k - 1) \div n) + 1],
                               start + ((k - 1) % n))]]

(* click on the export button *)
ExportToCSV ==
    /\ "ui" \in listeners
    /\ exported = NotExported
    /\ exported' = exportToCSV(gdpData, pppData, selectedCountries,
                               yearStart, yearEnd)
    /\ UNCHANGED <<appVars, rawData, lineVars, csvVars, mergeDoc, mergeKey,
                   merges, repeatedMerge, growthVars, sortingVars, colorVars,
                   pathVars>>

SelectNext ==
    \/ \E v \in YearInputs : YearStartInput(v)
    \/ \E v \in YearInputs : YearEndInput(v)
    \/ \E options \in OptionLists : CountrySelectChange(options)
    \/ \E code \in SearchCodes : AddCountryFromSearch(code)
    \/ \E code \in SearchCodes : RemoveCountry(code)
    \/ \E code \in GeoFixture : MapPathClick(code)
    \/ \E code \in SearchCodes : ToggleCountryFromRankings(code)
    \/ \E view \in SelectViews : exported = NotExported /\ ViewClick(view)
    \/ \E type \in PriceTypes : exported = NotExported /\ PriceClick(type)
    \/ exported = NotExported /\ MapYearInput(1960)
    \/ ExportToCSV

SpecSelect == PlayInit /\ [][SelectNext]_vars

(* C24: an export ends without error and holds one row for each selected   *)
(* region and each year from yearStart to yearEnd, in that order, with a   *)
(* blank for a value the store does not hold.                              *)
C24_ExportOneRowPerRegionYear ==
    exported # NotExported =>
        LET n == yearEnd - yearStart + 1 IN
        /\ exported.t = "csv"
        /\ Len(exported.rows) = Len(selectedCountries) * n
        /\ \A i \in 1..Len(selectedCountries), y \in yearStart..yearEnd :
              LET row == exported.rows[(i - 1) * n + (y - yearStart) + 1]
                  code == selectedCountries[i]
              IN  /\ row.year = y
                  /\ (\/ code \notin DOMAIN gdpData
                      \/ yearKey(y) \notin DOMAIN gdpData[code].values
                      \/ gdpData[code].values[yearKey(y)].t # "num") =>
                        row.g = Blank

(* C25: the year range satisfies 1960 <= yearStart < yearEnd <= 2024.      *)
C25_YearRangeOrdered ==
    /\ 1960 <= yearStart
    /\ yearStart < yearEnd
    /\ yearEnd <= 2024

(* C27: no code is selected twice, and a step that shortens the selection  *)
(* removes one code from it completely.                                    *)
C27_SelectionHasNoDuplicates ==
    /\ [](\A i, j \in 1..Len(selectedCountries) :
             selectedCountries[i] = selectedCountries[j] => i = j)
    /\ [][Len(selectedCountries') < Len(selectedCountries) =>
             \E i \in 1..Len(selectedCountries) :
                 /\ \A j \in 1..Len(selectedCountries') :
                       selectedCountries'[j] # selectedCountries[i]
                 /\ Len(selectedCountries') = Len(selectedCountries) - 1]_vars

C27_Witness ==
    /\ Len(selectedCountries) = 3
    /\ selectedCountries[3] = CodeA

(* C28: every selected code is a region of state.countries.                *)
C28_SelectionWithinCountries ==
    \A i \in 1..Len(selectedCountries) :
        \E c \in countries : c.code = selectedCountries[i]
====
